---- MODULE Spec2Model ----
(***************************************************************************)
(* Directory discovery of prompts-mcp                                      *)
(* (packages/mcp-server/src/utils/directory-discovery.ts), its prompt      *)
(* registry (packages/mcp-server/src/prompts/prompt-manager.ts), its       *)
(* transports (packages/mcp-server/src/transports) and its configuration   *)
(* (packages/mcp-server/src/config).                                       *)
(*                                                                         *)
(* A path string is a record [abs, segs]: abs says whether the string      *)
(* starts with "/", segs are its segments.  The empty string is the        *)
(* relative path without segments, "/" is the absolute one.  An optional   *)
(* value (an option left out, an environment variable that is not set) is  *)
(* a sequence: <<>> for undefined, <<v>> for the value v.                  *)
(***************************************************************************)
EXTENDS Naturals, Sequences, FiniteSets, TLC

VARIABLES
  env,     \* process.env: variable name -> optional path string
  cwd,     \* process.cwd(): the segments of the working directory
  fs,      \* the filesystem: the entries created in it
  call,    \* the call that returned last: function and options, if any
  ret,     \* the DirectoryDiscoveryResult it returned
  probes,  \* the existsSync calls it made, in order
  before,  \* history: after a change of the environment, the variable that
           \* was removed and what every request returned until then
  callers, \* the activations of discoverDirectory that are in flight: for
           \* each caller its position and its local variables
  prompts, \* PromptManager.prompts: prompt name -> optional Prompt
  registered, \* history: the register calls since the last clear
  http,    \* an HttpTransport instance, the listeners and MCP transports it
           \* made, the call in flight on it and what the last call and the
           \* last request to /mcp ended with
  stdio    \* a StdioTransport instance, likewise

vars ==
  <<env, cwd, fs, call, ret, probes, before, callers, prompts, registered,
    http, stdio>>

(***************************************************************************)
(* Bounds of the model.                                                    *)
(***************************************************************************)
\* number of entries created in the filesystem (their ancestors exist too)
MaxEntries == 2
\* number of prompts in one registerMany call
MaxBatch == 2
\* number of start calls made on one transport instance
MaxStarts == 2

undefined == <<>>
Some(v) == <<v>>
IsDefined(x) == x # undefined

AbsPath(s) == [abs |-> TRUE, segs |-> s]
RelPath(s) == [abs |-> FALSE, segs |-> s]
EmptyString == RelPath(<<>>)

\* JavaScript truthiness of an optional path string: set and not ""
Truthy(x) == IsDefined(x) /\ x[1] # EmptyString
\* JavaScript truthiness of an optional plain string
TruthyName(x) == IsDefined(x) /\ x[1] # ""

(***************************************************************************)
(* node:path                                                               *)
(***************************************************************************)
RECURSIVE normalizeSegs(_, _)
normalizeSegs(done, rest) ==
  IF rest = <<>> THEN done
  ELSE LET s == Head(rest) IN
       IF s = "." THEN normalizeSegs(done, Tail(rest))
       ELSE IF s = ".."
         THEN normalizeSegs(IF done = <<>> THEN <<>>
                            ELSE SubSeq(done, 1, Len(done) - 1), Tail(rest))
         ELSE normalizeSegs(Append(done, s), Tail(rest))

\* path.resolve that leaves "." and ".." in place
resolve_unnormalized(p) ==
  AbsPath(IF p.abs THEN p.segs ELSE cwd \o p.segs)

\* path.resolve(p): relative strings are taken against the working directory
resolve(p) ==
  AbsPath(normalizeSegs(<<>>, IF p.abs THEN p.segs ELSE cwd \o p.segs))

\* path.resolve(base, p): the rightmost absolute argument starts the result
resolve2(base, p) ==
  IF p.abs THEN resolve(p)
  ELSE resolve([abs |-> base.abs, segs |-> base.segs \o p.segs])

\* path.dirname of an absolute normalized path; dirname("/") is "/"
dirname(p) ==
  AbsPath(IF p.segs = <<>> THEN <<>> ELSE SubSeq(p.segs, 1, Len(p.segs) - 1))

(***************************************************************************)
(* node:fs and node:os                                                     *)
(***************************************************************************)
IsPrefix(s, t) == Len(s) <= Len(t) /\ SubSeq(t, 1, Len(s)) = s

\* What the operating system answers when asked about an absolute path.  An
\* entry of kind "dir" or "file" is a directory or a regular file; an entry of
\* kind "locked" is a directory the process may not search, so that asking
\* about anything below it fails with EACCES.  The ancestors of an entry are
\* directories.
statSync(p) ==
  IF \E e \in fs : /\ e.kind = "locked"
                   /\ Len(e.path) < Len(p.segs)
                   /\ IsPrefix(e.path, p.segs)
    THEN "EACCES"
  ELSE IF p.segs = <<>> THEN "dir"
  ELSE IF \E e \in fs : IsPrefix(p.segs, e.path) /\ (e.path # p.segs \/ e.kind # "file")
    THEN "dir"
  ELSE IF \E e \in fs : e.path = p.segs THEN "file"
  ELSE "ENOENT"

\* existsSync that takes only ENOENT for absence
existsSync_errorAsPresent(p) == statSync(p) # "ENOENT"

\* existsSync that asks for a directory
existsSync_directoryOnly(p) == statSync(p) = "dir"

\* fs.existsSync: true for a directory and for a regular file alike, false
\* when there is nothing and when the question fails
existsSync(p) == statSync(p) \in {"dir", "file"}

homedir == AbsPath(<<"h">>)

(***************************************************************************)
(* process.env                                                             *)
(***************************************************************************)
PROJECT_DIR_ENV_VAR == "PROJECT_DIR"
SUBDIR_ENV_VAR_SUFFIX == "_SUBDIR"

process_env(name) == IF name \in DOMAIN env THEN env[name] ELSE undefined

(***************************************************************************)
(* directory-discovery.ts.  Every operator that queries the filesystem     *)
(* returns, next to its value, the existence checks it made, in order:     *)
(* [at |-> the call site of existsSync, path |-> its argument].            *)
(***************************************************************************)
Probe(site, p) == [at |-> site, path |-> p]

\* getStartDirectory with the precedence reversed: a provided directory wins
getStartDirectory_providedFirst(providedStartDir) ==
  IF IsDefined(providedStartDir) THEN providedStartDir[1]
  ELSE IF Truthy(process_env(PROJECT_DIR_ENV_VAR))
         THEN resolve(process_env(PROJECT_DIR_ENV_VAR)[1])
         ELSE AbsPath(cwd)

\* getStartDirectory: PROJECT_DIR wins when it is truthy
getStartDirectory(providedStartDir) ==
  IF Truthy(process_env(PROJECT_DIR_ENV_VAR))
    THEN resolve(process_env(PROJECT_DIR_ENV_VAR)[1])
    ELSE IF IsDefined(providedStartDir) THEN providedStartDir[1]
         ELSE AbsPath(cwd)

\* searchLoop whose loop runs for the root too, before the check after it
RECURSIVE searchLoop_rootTwice(_, _, _)
searchLoop_rootTwice(currentDir, subdir, probed) ==
  LET root == resolve(AbsPath(<<>>))
      targetPath == resolve2(currentDir, subdir)
      checked == Append(probed, Probe("search", targetPath)) IN
  IF existsSync(targetPath) THEN [found |-> Some(targetPath), probes |-> checked]
  ELSE IF currentDir # root
    THEN searchLoop_rootTwice(dirname(currentDir), subdir, checked)
    ELSE [found |-> undefined,
          probes |-> Append(checked, Probe("search", resolve2(root, subdir)))]

\* searchLoop that stops at the root without checking it
RECURSIVE searchLoop_rootSkipped(_, _, _)
searchLoop_rootSkipped(currentDir, subdir, probed) ==
  IF currentDir # resolve(AbsPath(<<>>))
    THEN LET targetPath == resolve2(currentDir, subdir) IN
         IF existsSync(targetPath)
           THEN [found |-> Some(targetPath),
                 probes |-> Append(probed, Probe("search", targetPath))]
           ELSE searchLoop_rootSkipped(dirname(currentDir), subdir,
                                       Append(probed, Probe("search", targetPath)))
    ELSE [found |-> undefined, probes |-> probed]

\* the while loop of searchUpward and the check of the root after it
RECURSIVE searchLoop(_, _, _)
searchLoop(currentDir, subdir, probed) ==
  LET root == resolve(AbsPath(<<>>)) IN
  IF currentDir # root
    THEN LET targetPath == resolve2(currentDir, subdir) IN
         IF existsSync(targetPath)
           THEN [found |-> Some(targetPath),
                 probes |-> Append(probed, Probe("search", targetPath))]
           ELSE searchLoop(dirname(currentDir), subdir,
                           Append(probed, Probe("search", targetPath)))
    ELSE LET rootPath == resolve2(root, subdir) IN
         [found |-> IF existsSync(rootPath) THEN Some(rootPath) ELSE undefined,
          probes |-> Append(probed, Probe("search", rootPath))]

\* searchUpward that begins at the parent of the start directory
searchUpward_fromParent(startDir, subdir) ==
  searchLoop(dirname(resolve(startDir)), subdir, <<>>)

searchUpward(startDir, subdir) == searchLoop(resolve(startDir), subdir, <<>>)

\* useHomeFallback defaulting to false
useHomeFallbackOf_defaultFalse(options) ==
  IF IsDefined(options.useHomeFallback) THEN options.useHomeFallback[1] ELSE FALSE

\* destructuring defaults of discoverDirectory: they apply to undefined only
useHomeFallbackOf(options) ==
  IF IsDefined(options.useHomeFallback) THEN options.useHomeFallback[1] ELSE TRUE

\* the home subdirectory option ignored
homeSubdirOf_ignored(options) == options.subdir

homeSubdirOf(options) ==
  IF IsDefined(options.homeSubdir) THEN options.homeSubdir[1] ELSE options.subdir

\* the name of the override variable of a prefix
subdirEnvVar(subdirEnvPrefix) == subdirEnvPrefix \o SUBDIR_ENV_VAR_SUFFIX

\* the override taken only when its path exists
overrideTaken_ifExists(options) ==
  /\ TruthyName(options.subdirEnvPrefix)
  /\ Truthy(process_env(subdirEnvVar(options.subdirEnvPrefix[1])))
  /\ existsSync(resolve(process_env(subdirEnvVar(options.subdirEnvPrefix[1]))[1]))

\* the override taken whenever its variable is set, be it to ""
overrideTaken_ifSet(options) ==
  /\ TruthyName(options.subdirEnvPrefix)
  /\ IsDefined(process_env(subdirEnvVar(options.subdirEnvPrefix[1])))

\* the two nested conditions of strategy 1
overrideTaken(options) ==
  /\ TruthyName(options.subdirEnvPrefix)
  /\ Truthy(process_env(subdirEnvVar(options.subdirEnvPrefix[1])))

\* strategy 1 with the override value taken against the start directory
envSubdirResult_fromStartDir(options) ==
  LET envPath == resolve2(resolve(getStartDirectory(options.startDir)),
                          process_env(subdirEnvVar(options.subdirEnvPrefix[1]))[1]) IN
  [result |-> [path |-> envPath, source |-> "env-subdir",
               exists |-> existsSync(envPath)],
   probes |-> <<Probe("override", envPath)>>]

\* strategy 1: the value of the override variable, resolved
envSubdirResult(options) ==
  LET envPath == resolve(process_env(subdirEnvVar(options.subdirEnvPrefix[1]))[1]) IN
  [result |-> [path |-> envPath, source |-> "env-subdir",
               exists |-> existsSync(envPath)],
   probes |-> <<Probe("override", envPath)>>]

usedProjectDirEnv == process_env(PROJECT_DIR_ENV_VAR) # undefined

projectSource == IF usedProjectDirEnv THEN "env-project" ELSE "project"

\* the home directory reported with an empty path when nothing is there
homeResult_emptyWhenMissing(options) ==
  LET homePath == resolve2(homedir, homeSubdirOf(options)) IN
  IF existsSync(homePath)
    THEN [path |-> homePath, source |-> "home", exists |-> TRUE]
    ELSE [path |-> EmptyString, source |-> "home", exists |-> FALSE]

\* strategy 3: the home directory
homeResult(options) ==
  LET homePath == resolve2(homedir, homeSubdirOf(options)) IN
  [path |-> homePath, source |-> "home", exists |-> existsSync(homePath)]

\* the missing path taken from the working directory
notFoundResult_fromCwd(options, effectiveStartDir) ==
  [path |-> resolve(options.subdir), source |-> projectSource, exists |-> FALSE]

\* the missing path reported as existing
notFoundResult_existing(options, effectiveStartDir) ==
  [path |-> resolve2(effectiveStartDir, options.subdir),
   source |-> projectSource, exists |-> TRUE]

\* no fallback: the subdirectory of the start directory, reported missing
notFoundResult(options, effectiveStartDir) ==
  [path |-> resolve2(effectiveStartDir, options.subdir),
   source |-> projectSource, exists |-> FALSE]

\* strategies 2 and 3 and the return after them
searchOrFallback(options) ==
    LET effectiveStartDir == getStartDirectory(options.startDir)
        search == searchUpward(effectiveStartDir, options.subdir)
    IN  IF IsDefined(search.found)
          THEN [result |-> [path |-> search.found[1], source |-> projectSource,
                            exists |-> TRUE],
                probes |-> search.probes]
          ELSE IF useHomeFallbackOf(options)
            THEN [result |-> homeResult(options),
                  probes |-> Append(search.probes,
                                    Probe("home", homeResult(options).path))]
            ELSE [result |-> notFoundResult(options, effectiveStartDir),
                  probes |-> search.probes]

\* discoverDirectory with the search tried before the override
discoverDirectory_searchFirst(options) ==
  LET searched == searchOrFallback(options) IN
  IF searched.result.exists \/ ~overrideTaken(options) THEN searched
  ELSE envSubdirResult(options)

\* discoverDirectory spelling the variable name from the prefix before it
\* looks whether there is one: `${undefined}_SUBDIR`
discoverDirectory_spelledFirst(options) ==
  LET spelled == IF IsDefined(options.subdirEnvPrefix) THEN options
                 ELSE [options EXCEPT !.subdirEnvPrefix = Some("undefined")] IN
  IF overrideTaken(spelled) THEN envSubdirResult(spelled)
  ELSE searchOrFallback(options)

discoverDirectory(options) ==
  IF overrideTaken(options) THEN envSubdirResult(options)
  ELSE searchOrFallback(options)

\* the path alone
findDirectory(options) ==
  LET run == discoverDirectory(options) IN
  [result |-> run.result.path, probes |-> run.probes]

\* directoryExists answering whether subdir is at any place the algorithm
\* could look at
directoryExists_anywhere(options) ==
  LET run == discoverDirectory(options)
      start == getStartDirectory(options.startDir) IN
  [result |-> \/ run.result.exists
              \/ searchUpward(start, options.subdir).found # undefined
              \/ existsSync(resolve2(homedir, homeSubdirOf(options))),
   probes |-> run.probes]

\* the existence alone
directoryExists(options) ==
  LET run == discoverDirectory(options) IN
  [result |-> run.result.exists, probes |-> run.probes]

(***************************************************************************)
(* The inputs: the requests a caller makes and the worlds it makes them in.*)
(* /h is the home directory, /p and /p/q are project directories, t and    *)
(* t/u are the subdirectories searched for, u is a home subdirectory and   *)
(* o is where an override variable points.                                 *)
(***************************************************************************)
Optional(S) == {undefined} \cup {Some(v) : v \in S}

SubdirValues == {RelPath(<<"t">>), RelPath(<<"t", "u">>)}

Options ==
  [subdirEnvPrefix : Optional({"", "PROMPTS"}),
   subdir          : SubdirValues,
   startDir        : Optional({AbsPath(<<"p", "q">>), RelPath(<<"q">>)}),
   useHomeFallback : Optional(BOOLEAN),
   homeSubdir      : Optional({RelPath(<<"u">>)})]

\* what may have been created in the filesystem; the ancestors of an entry
\* exist with it
FsPaths ==
  {<<"t">>, <<"p", "t">>, <<"p", "t", "u">>, <<"p", "q", "t">>,
   <<"h", "t">>, <<"h", "u">>, <<"o">>, <<"p", "o">>}

FsStates ==
  {f \in SUBSET [path : FsPaths, kind : {"dir"}] : Cardinality(f) <= MaxEntries}

EnvNames == {PROJECT_DIR_ENV_VAR, "PROMPTS_SUBDIR", "_SUBDIR"}

ProjectDirValues ==
  Optional({EmptyString, AbsPath(<<"p", "q">>), RelPath(<<"..">>)})

SubdirEnvValues ==
  Optional({EmptyString, AbsPath(<<"o">>), RelPath(<<"o">>)})

\* a variable named _SUBDIR is what an empty prefix would spell
EnvStates ==
  {e \in [EnvNames -> ProjectDirValues \cup SubdirEnvValues] :
     /\ e[PROJECT_DIR_ENV_VAR] \in ProjectDirValues
     /\ e["PROMPTS_SUBDIR"] \in SubdirEnvValues
     /\ e["_SUBDIR"] \in {undefined, Some(AbsPath(<<"o">>))}
     /\ e["_SUBDIR"] # undefined => e["PROMPTS_SUBDIR"] = undefined}

CwdValues == {<<"p">>, <<"p", "q">>}

\* filesystems with regular files and locked directories: one entry of a
\* filesystem of directories may be a regular file or locked instead, and
\* nothing lies below a regular file
FsKindStates ==
  LET marked(f) ==
        {(f \ {e}) \cup {[path |-> e.path, kind |-> k]} :
           e \in f, k \in {"file", "locked"}}
      valid(f) ==
        \A e1, e2 \in f :
          (e1.kind = "file" /\ IsPrefix(e1.path, e2.path)) => e1 = e2
  IN  {f \in FsStates \cup UNION {marked(f) : f \in FsStates} : valid(f)}

\* the environments used with them: the override points at a subdirectory
EnvKindStates ==
  {e \in [EnvNames -> Optional({AbsPath(<<"p", "q">>), AbsPath(<<"p", "t", "u">>)})] :
     /\ e[PROJECT_DIR_ENV_VAR] \in Optional({AbsPath(<<"p", "q">>)})
     /\ e["PROMPTS_SUBDIR"] \in Optional({AbsPath(<<"p", "t", "u">>)})
     /\ e["_SUBDIR"] = undefined}

\* environments that hold variables a request without a prefix might be
\* taken to name
EnvStrayStates ==
  {e \in [EnvNames \cup {"undefined_SUBDIR"} -> Optional({AbsPath(<<"p", "q">>), AbsPath(<<"o">>)})] :
     /\ e[PROJECT_DIR_ENV_VAR] \in Optional({AbsPath(<<"p", "q">>)})
     /\ \A n \in DOMAIN e \ {PROJECT_DIR_ENV_VAR} : e[n] \in Optional({AbsPath(<<"o">>)})}

\* new HttpTransport({port}): no listener, no MCP transport, no server.
\* listeners and transports are what the instance has made so far, by number:
\* a listener is "open", "closed" or, when its port could not be bound,
\* "failed"; an MCP transport is "new", "connected" or "closed".
HttpNew(port) ==
  [port |-> port, httpServer |-> undefined, transport |-> undefined,
   server |-> undefined, listeners |-> <<>>, transports |-> <<>>,
   pc |-> "idle", atCall |-> undefined, rejectedWith |-> undefined,
   last |-> undefined, response |-> undefined]

\* new StdioTransport()
StdioNew ==
  [transport |-> undefined, server |-> undefined, transports |-> <<>>,
   pc |-> "idle", atCall |-> undefined, rejectedWith |-> undefined,
   last |-> undefined]

NoTransports == http = HttpNew(0) /\ stdio = StdioNew

\* the callers that may have a call in flight at the same time
Callers == {1, 2}

\* no activation: the caller is outside discoverDirectory
Idle ==
  [pc |-> "idle", options |-> undefined, startDir |-> undefined,
   currentDir |-> undefined, ret |-> undefined]

NoCallers == callers = [c \in Callers |-> Idle]

\* the prompt names, the contents that tell two prompts of a name and a
\* source apart, and the prompts offered to a PromptManager
PromptNames == {"a", "b"}
PromptSources == {"pre-shipped", "custom"}
PromptBodies == {"x", "y"}
Prompts ==
  [name : PromptNames, metadata : [source : PromptSources], content : PromptBodies]

\* new Map()
EmptyRegistry ==
  /\ prompts = [n \in PromptNames |-> undefined]
  /\ registered = {}

Init ==
  /\ env \in EnvStates
  /\ cwd \in CwdValues
  /\ fs \in FsStates
  /\ call = undefined
  /\ ret = undefined
  /\ probes = <<>>
  /\ before = undefined
  /\ NoCallers
  /\ EmptyRegistry
  /\ NoTransports

\* discoverDirectory making the directory it did not find
DiscoverDirectory_creating ==
  \E options \in Options :
    LET run == discoverDirectory(options) IN
    /\ call = undefined
    /\ call' = Some([fn |-> "discoverDirectory", options |-> options])
    /\ ret' = Some(run.result)
    /\ probes' = run.probes
    /\ before' = undefined
    /\ fs' = IF run.result.exists THEN fs
             ELSE fs \cup {[path |-> run.result.path.segs, kind |-> "dir"]}
    /\ UNCHANGED <<env, cwd, callers, prompts, registered, http, stdio>>

\* a caller runs discoverDirectory(options) to its return; the function is
\* synchronous, so nothing else runs between its first and its last line
DiscoverDirectory ==
  \E options \in Options :
    LET run == discoverDirectory(options) IN
    /\ call = undefined
    /\ call' = Some([fn |-> "discoverDirectory", options |-> options])
    /\ ret' = Some(run.result)
    /\ probes' = run.probes
    /\ before' = undefined
    /\ UNCHANGED <<env, cwd, fs, callers, prompts, registered, http, stdio>>

\* the caller is done with the result, a transient value
Discard ==
  /\ call # undefined
  /\ call' = undefined
  /\ ret' = undefined
  /\ probes' = <<>>
  /\ before' = undefined
  /\ UNCHANGED <<env, cwd, fs, callers, prompts, registered, http, stdio>>

\* between two calls the program around the function removes a variable from
\* its environment (delete process.env[name])
Unsetenv ==
  \E name \in EnvNames :
    /\ call = undefined
    /\ env[name] # undefined
    /\ env' = [env EXCEPT ![name] = undefined]
    /\ before' = Some([name |-> name, value |-> env[name][1],
                       outcome |-> [o \in Options |-> discoverDirectory(o)]])
    /\ UNCHANGED <<cwd, fs, call, ret, probes, callers, prompts, registered, http, stdio>>

Next == DiscoverDirectory \/ Discard

Spec == Init /\ [][Next]_vars

\* the same calls in environments with stray override variables
InitStray ==
  /\ env \in EnvStrayStates
  /\ cwd = <<"p">>
  /\ fs \in FsStates
  /\ call = undefined
  /\ ret = undefined
  /\ probes = <<>>
  /\ before = undefined
  /\ NoCallers
  /\ EmptyRegistry
  /\ NoTransports

SpecStray == InitStray /\ [][Next]_vars

\* the same calls in an environment that loses variables between them
InitEnv ==
  /\ env \in EnvStates
  /\ cwd = <<"p", "q">>
  /\ fs \in FsStates
  /\ call = undefined
  /\ ret = undefined
  /\ probes = <<>>
  /\ before = undefined
  /\ NoCallers
  /\ EmptyRegistry
  /\ NoTransports

NextEnv == DiscoverDirectory \/ Discard \/ Unsetenv

SpecEnv == InitEnv /\ [][NextEnv]_vars

\* a caller runs findDirectory(options) to its return
FindDirectory ==
  \E options \in Options :
    LET run == findDirectory(options) IN
    /\ call = undefined
    /\ call' = Some([fn |-> "findDirectory", options |-> options])
    /\ ret' = Some(run.result)
    /\ probes' = run.probes
    /\ before' = undefined
    /\ UNCHANGED <<env, cwd, fs, callers, prompts, registered, http, stdio>>

\* a caller runs directoryExists(options) to its return
DirectoryExists ==
  \E options \in Options :
    LET run == directoryExists(options) IN
    /\ call = undefined
    /\ call' = Some([fn |-> "directoryExists", options |-> options])
    /\ ret' = Some(run.result)
    /\ probes' = run.probes
    /\ before' = undefined
    /\ UNCHANGED <<env, cwd, fs, callers, prompts, registered, http, stdio>>

\* the three exported functions, called in any order
InitExports ==
  /\ env \in EnvKindStates
  /\ cwd \in CwdValues
  /\ fs \in FsStates
  /\ call = undefined
  /\ ret = undefined
  /\ probes = <<>>
  /\ before = undefined
  /\ NoCallers
  /\ EmptyRegistry
  /\ NoTransports

NextExports ==
  \/ DiscoverDirectory
  \/ FindDirectory
  \/ DirectoryExists
  \/ Discard
  \/ Unsetenv

SpecExports == InitExports /\ [][NextExports]_vars

(***************************************************************************)
(* discoverDirectory statement by statement, for callers whose calls       *)
(* overlap.  Every existsSync call is a step of its own, so every order    *)
(* in which the filesystem is asked is a behaviour.                        *)
(***************************************************************************)
CallerOptions ==
  {o \in Options : /\ o.subdirEnvPrefix \in {undefined, Some("PROMPTS")}
                   /\ o.startDir = undefined
                   /\ o.homeSubdir = undefined
                   /\ o.useHomeFallback \in {undefined, Some(FALSE)}}

\* currentDir kept in one place for all activations: a caller in the loop
\* reads the cursor of the first caller while that one is in the loop too
currentDirOf_shared(c) ==
  IF callers[1].pc = "search" THEN callers[1].currentDir[1]
  ELSE callers[c].currentDir[1]

\* `let currentDir` of searchUpward, a local of the activation
currentDirOf(c) == callers[c].currentDir[1]

Return(c, result) ==
  callers' = [callers EXCEPT ![c].pc = "done", ![c].ret = Some(result)]

\* lines 161-188: the options are read, strategy 1 returns or the search is
\* set up
Enter(c) ==
  \E options \in CallerOptions :
    /\ callers[c].pc = "idle"
    /\ IF overrideTaken(options)
         THEN callers' = [callers EXCEPT
                ![c] = [Idle EXCEPT !.pc = "done", !.options = Some(options),
                                    !.ret = Some(envSubdirResult(options).result)]]
         ELSE LET effectiveStartDir == getStartDirectory(options.startDir) IN
              callers' = [callers EXCEPT
                ![c] = [Idle EXCEPT !.pc = "search", !.options = Some(options),
                                    !.startDir = Some(effectiveStartDir),
                                    !.currentDir = Some(resolve(effectiveStartDir))]]
    /\ UNCHANGED <<env, cwd, fs, call, ret, probes, before, prompts, registered, http, stdio>>

\* lines 110-124 and 191-214: one existence check of the upward search and
\* what follows it
SearchStep(c) ==
  LET options == callers[c].options[1]
      root == resolve(AbsPath(<<>>))
      currentDir == currentDirOf(c)
      targetPath == resolve2(currentDir, options.subdir)
      found == [path |-> targetPath, source |-> projectSource, exists |-> TRUE]
  IN
  /\ callers[c].pc = "search"
  /\ IF existsSync(targetPath) THEN Return(c, found)
     ELSE IF currentDir # root
       THEN callers' = [callers EXCEPT ![c].currentDir = Some(dirname(currentDir))]
     ELSE IF useHomeFallbackOf(options)
       THEN callers' = [callers EXCEPT ![c].pc = "home"]
     ELSE Return(c, notFoundResult(options, callers[c].startDir[1]))
  /\ UNCHANGED <<env, cwd, fs, call, ret, probes, before, prompts, registered, http, stdio>>

\* lines 200-207: the home directory
HomeStep(c) ==
  /\ callers[c].pc = "home"
  /\ Return(c, homeResult(callers[c].options[1]))
  /\ UNCHANGED <<env, cwd, fs, call, ret, probes, before, prompts, registered, http, stdio>>

\* the caller has its result and may call again
Leave(c) ==
  /\ callers[c].pc = "done"
  /\ callers' = [callers EXCEPT ![c] = Idle]
  /\ UNCHANGED <<env, cwd, fs, call, ret, probes, before, prompts, registered, http, stdio>>

InitCallers ==
  /\ env \in EnvKindStates
  /\ cwd = <<"p", "q">>
  /\ fs \in FsStates
  /\ call = undefined
  /\ ret = undefined
  /\ probes = <<>>
  /\ before = undefined
  /\ NoCallers
  /\ EmptyRegistry
  /\ NoTransports

NextCallers ==
  \E c \in Callers : Enter(c) \/ SearchStep(c) \/ HomeStep(c) \/ Leave(c)

SpecCallers == InitCallers /\ [][NextCallers]_vars

(***************************************************************************)
(* PromptManager (packages/mcp-server/src/prompts/prompt-manager.ts).      *)
(* The operators take the Map as m and return the Map after the call.      *)
(***************************************************************************)
\* Map.set(prompt.name, prompt)
set(m, prompt) == [m EXCEPT ![prompt.name] = Some(prompt)]

\* register where the prompt offered last is stored, whatever the sources
register_lastWins(m, prompt, allowOverride) ==
  IF m[prompt.name] # undefined /\ ~allowOverride THEN m ELSE set(m, prompt)

\* register letting a custom prompt replace a pre-shipped one also when
\* allowOverride is false
register_customAlwaysWins(m, prompt, allowOverride) ==
  LET existing == m[prompt.name] IN
  IF existing = undefined THEN set(m, prompt)
  ELSE IF /\ prompt.metadata.source = "custom"
          /\ existing[1].metadata.source = "pre-shipped"
    THEN set(m, prompt)
  ELSE IF ~allowOverride THEN m
  ELSE IF /\ prompt.metadata.source = "pre-shipped"
          /\ existing[1].metadata.source = "custom"
    THEN m
  ELSE set(m, prompt)

register(m, prompt, allowOverride) ==
  LET existing == m[prompt.name] IN
  IF existing # undefined /\ ~allowOverride THEN m
  ELSE IF existing # undefined
    THEN IF /\ prompt.metadata.source = "custom"
            /\ existing[1].metadata.source = "pre-shipped"
           THEN set(m, prompt)
         ELSE IF /\ prompt.metadata.source = "pre-shipped"
                 /\ existing[1].metadata.source = "custom"
           THEN m
         ELSE set(m, prompt)
  ELSE set(m, prompt)

\* the default of the parameter allowOverride
allowOverrideOf(arg) == IF IsDefined(arg) THEN arg[1] ELSE TRUE

RECURSIVE registerMany(_, _)
registerMany(m, batch) ==
  IF batch = <<>> THEN m
  ELSE registerMany(register(m, Head(batch), TRUE), Tail(batch))

getPrompt(name) ==
  IF prompts[name] = undefined
    THEN [throws |-> Some("PromptNotFoundError"), value |-> undefined]
    ELSE [throws |-> undefined, value |-> prompts[name]]

hasPrompt(name) == prompts[name] # undefined

\* Array.from(this.prompts.values()), the order of the array left out
listPrompts == {prompts[n][1] : n \in {k \in PromptNames : prompts[k] # undefined}}

\* count() counting the registrations made instead of the entries held
count_registrations == Cardinality(registered)

\* this.prompts.size
count == Cardinality({n \in PromptNames : prompts[n] # undefined})

\* the arrays of prompts handed to registerMany
Batches == UNION {[1..n -> Prompts] : n \in 0..MaxBatch}

\* the arrays PromptLoader.loadFromDirectory returns: the loader gives every
\* prompt the source "custom"
LoadedBatches ==
  {b \in Batches : \A i \in DOMAIN b : b[i].metadata.source = "custom"}

\* prompt.metadata.source = source for each prompt of an array
markSource(batch, source) ==
  [i \in DOMAIN batch |-> [batch[i] EXCEPT !.metadata.source = source]]

\* what the history keeps of a register call
Registration(prompt, allowOverride) ==
  [name |-> prompt.name, source |-> prompt.metadata.source,
   allowOverride |-> allowOverride]
RegistrationsOf(batch) == {Registration(batch[i], TRUE) : i \in DOMAIN batch}

\* a call that changes the registry: what an earlier getPrompt returned is
\* no longer the result of the last call
Register ==
  \E prompt \in Prompts, arg \in Optional(BOOLEAN) :
    /\ prompts' = register(prompts, prompt, allowOverrideOf(arg))
    /\ registered' = registered \cup {Registration(prompt, allowOverrideOf(arg))}
    /\ call' = undefined
    /\ ret' = undefined
    /\ UNCHANGED <<env, cwd, fs, probes, before, callers, http, stdio>>

RegisterMany ==
  \E batch \in Batches :
    /\ prompts' = registerMany(prompts, batch)
    /\ registered' = registered \cup RegistrationsOf(batch)
    /\ call' = undefined
    /\ ret' = undefined
    /\ UNCHANGED <<env, cwd, fs, probes, before, callers, http, stdio>>

Clear ==
  /\ prompts' = [n \in PromptNames |-> undefined]
  /\ registered' = {}
  /\ call' = undefined
  /\ ret' = undefined
  /\ UNCHANGED <<env, cwd, fs, probes, before, callers, http, stdio>>

\* a caller asks for a prompt; what it gets, a prompt or an exception, is
\* kept as the result of the last call
GetPrompt ==
  \E name \in PromptNames :
    /\ call' = Some([fn |-> "getPrompt", name |-> name])
    /\ ret' = Some(getPrompt(name))
    /\ UNCHANGED <<env, cwd, fs, probes, before, callers, prompts, registered, http, stdio>>

\* startServer on its new PromptManager: the pre-shipped prompts are
\* registered, then the user prompts if their directory exists
StartServerLoad ==
  /\ prompts = [n \in PromptNames |-> undefined]
  /\ registered = {}
  /\ \E preShipped \in LoadedBatches, user \in LoadedBatches,
        userDirExists \in BOOLEAN :
       LET pre == markSource(preShipped, "pre-shipped")
           custom == IF userDirExists THEN markSource(user, "custom") ELSE <<>>
       IN
       /\ prompts' = registerMany(registerMany(prompts, pre), custom)
       /\ registered' = RegistrationsOf(pre) \cup RegistrationsOf(custom)
  /\ call' = undefined
  /\ ret' = undefined
  /\ UNCHANGED <<env, cwd, fs, probes, before, callers, http, stdio>>

InitPromptManager ==
  /\ env = [n \in EnvNames |-> undefined]
  /\ cwd = <<"p">>
  /\ fs = {}
  /\ call = undefined
  /\ ret = undefined
  /\ probes = <<>>
  /\ before = undefined
  /\ NoCallers
  /\ EmptyRegistry
  /\ NoTransports

NextPromptManager ==
  Register \/ RegisterMany \/ Clear \/ StartServerLoad \/ GetPrompt

SpecPromptManager == InitPromptManager /\ [][NextPromptManager]_vars

(***************************************************************************)
(* HttpTransport (packages/mcp-server/src/transports/http.ts).  A call is  *)
(* a sequence of steps that ends at each await; a call begins when no      *)
(* other call on the instance is in flight.  Requests to /mcp arrive at    *)
(* any time through a listener of the instance that is open.               *)
(***************************************************************************)
\* the errors server.connect and close may fail with
Errors == {"E1", "E2"}

Resolved(fn) == Some([fn |-> fn, outcome |-> "resolved", error |-> undefined])
Rejected(fn, e) == Some([fn |-> fn, outcome |-> "rejected", error |-> Some(e)])

OpenListeners(h) == {i \in DOMAIN h.listeners : h.listeners[i] = "open"}

\* isRunning() of HttpTransport
HttpIsRunning(h) ==
  h.httpServer # undefined /\ h.transport # undefined /\ h.server # undefined

\* what the instance looked like when a call began
HttpAtCall(h) ==
  Some([listeners |-> Len(h.listeners), after |-> h.last,
        nothingToStop |-> h.httpServer = undefined /\ h.transport = undefined])

\* what serve({port}) may give: the port of a listener that is still open
\* cannot be bound again unless it is 0, and any port may be taken
Bind(h) ==
  IF h.port # 0 /\ OpenListeners(h) # {} THEN {"failed"} ELSE {"open", "failed"}

\* lines 180-211: start(server) up to `await server.connect(this.transport)`
HttpStart ==
  /\ http.pc = "idle"
  /\ Len(http.transports) < MaxStarts
  /\ http' = [http EXCEPT
       !.server = Some("server"),
       !.transports = Append(@, "new"),
       !.transport = Some(Len(http.transports) + 1),
       !.atCall = HttpAtCall(http),
       !.rejectedWith = undefined,
       !.pc = "start:connect"]
  /\ UNCHANGED <<env, cwd, fs, call, ret, probes, before, callers, prompts,
                 registered, stdio>>

\* the error start throws when connect has rejected with e, wrapped in a
\* new one
StartError_wrapped(e) == "StartFailed"

\* line 244: `throw error`
StartError(e) == e

\* lines 211-234: connect has resolved, serve() makes the listener
HttpStartConnected ==
  /\ http.pc = "start:connect"
  /\ \E bound \in Bind(http) :
       http' = [http EXCEPT
         !.transports[http.transport[1]] = "connected",
         !.listeners = Append(@, bound),
         !.httpServer = Some(Len(http.listeners) + 1),
         !.pc = "idle",
         !.last = Resolved("start")]
  /\ UNCHANGED <<env, cwd, fs, call, ret, probes, before, callers, prompts,
                 registered, stdio>>

\* lines 235-245: connect has rejected, the fields are reset and the error
\* is thrown again
HttpStartConnectRejected ==
  /\ http.pc = "start:connect"
  /\ \E e \in Errors :
       http' = [http EXCEPT
         !.transport = undefined,
         !.server = undefined,
         !.httpServer = undefined,
         !.rejectedWith = Some(e),
         !.pc = "idle",
         !.last = Rejected("start", StartError(e))]
  /\ UNCHANGED <<env, cwd, fs, call, ret, probes, before, callers, prompts,
                 registered, stdio>>

\* a stop() that refuses a transport that is not running
HttpStop_rejectsWhenIdle ==
  /\ http.pc = "idle"
  /\ http' =
       IF http.httpServer = undefined /\ http.transport = undefined
         THEN [http EXCEPT !.atCall = HttpAtCall(http),
                           !.last = Rejected("stop", "NotRunning")]
       ELSE IF http.httpServer # undefined
         THEN [http EXCEPT !.atCall = HttpAtCall(http), !.pc = "stop:closeServer"]
         ELSE [http EXCEPT !.atCall = HttpAtCall(http), !.pc = "stop:closeTransport"]
  /\ UNCHANGED <<env, cwd, fs, call, ret, probes, before, callers, prompts,
                 registered, stdio>>

\* lines 253-274 and 279-280: stop() up to its first await
HttpStop ==
  /\ http.pc = "idle"
  /\ http' =
       IF http.httpServer = undefined /\ http.transport = undefined
         THEN [http EXCEPT !.atCall = HttpAtCall(http), !.last = Resolved("stop")]
       ELSE IF http.httpServer # undefined
         THEN [http EXCEPT !.atCall = HttpAtCall(http), !.pc = "stop:closeServer"]
         ELSE [http EXCEPT !.atCall = HttpAtCall(http), !.pc = "stop:closeTransport"]
  /\ UNCHANGED <<env, cwd, fs, call, ret, probes, before, callers, prompts,
                 registered, stdio>>

\* lines 267-280: the callback of httpServer.close: a listener that is not
\* listening gives an error, which rejects the promise and so the call
HttpStopServerClosed ==
  /\ http.pc = "stop:closeServer"
  /\ LET l == http.httpServer[1] IN
     IF http.listeners[l] # "open"
       THEN http' = [http EXCEPT !.pc = "idle",
                                 !.last = Rejected("stop", "ERR_SERVER_NOT_RUNNING")]
     ELSE IF http.transport # undefined
       THEN http' = [http EXCEPT !.listeners[l] = "closed",
                                 !.httpServer = undefined,
                                 !.pc = "stop:closeTransport"]
       ELSE http' = [http EXCEPT !.listeners[l] = "closed",
                                 !.httpServer = undefined,
                                 !.server = undefined,
                                 !.pc = "idle",
                                 !.last = Resolved("stop")]
  /\ UNCHANGED <<env, cwd, fs, call, ret, probes, before, callers, prompts,
                 registered, stdio>>

\* lines 280-291: transport.close() has resolved, or it has rejected, having
\* closed the MCP transport or not
HttpStopTransportClosed ==
  /\ http.pc = "stop:closeTransport"
  /\ LET t == http.transport[1] IN
     \/ http' = [http EXCEPT !.transports[t] = "closed",
                             !.transport = undefined,
                             !.server = undefined,
                             !.pc = "idle",
                             !.last = Resolved("stop")]
     \/ \E state \in {http.transports[t], "closed"} :
          http' = [http EXCEPT !.transports[t] = state,
                               !.pc = "idle",
                               !.last = Rejected("stop", "CloseFailed")]
  /\ UNCHANGED <<env, cwd, fs, call, ret, probes, before, callers, prompts,
                 registered, stdio>>

\* lines 94-171: a request to /mcp is handled: 503 without a transport,
\* otherwise the request is handed to this.transport
HttpRequestMcp ==
  /\ OpenListeners(http) # {}
  /\ http' = [http EXCEPT !.response =
       IF http.transport = undefined
         THEN Some([status |-> 503, error |-> "Transport not initialized",
                    passedTo |-> undefined])
         ELSE Some([status |-> 200, error |-> "",
                    passedTo |-> Some([transport |-> http.transport[1],
                                       state |-> http.transports[http.transport[1]]])])]
  /\ UNCHANGED <<env, cwd, fs, call, ret, probes, before, callers, prompts,
                 registered, stdio>>

(***************************************************************************)
(* StdioTransport (packages/mcp-server/src/transports/stdio.ts).  The      *)
(* signal handlers that start installs call stop() and end the process;    *)
(* they are the stop call of this model followed by nothing.               *)
(***************************************************************************)
\* isRunning() of StdioTransport
StdioIsRunning(t) == t.transport # undefined /\ t.server # undefined

StdioAtCall(t) ==
  Some([after |-> t.last, nothingToStop |-> t.transport = undefined])

\* start(server) up to `await server.connect(this.transport)`
StdioStart ==
  /\ stdio.pc = "idle"
  /\ Len(stdio.transports) < MaxStarts
  /\ stdio' = [stdio EXCEPT
       !.server = Some("server"),
       !.transports = Append(@, "new"),
       !.transport = Some(Len(stdio.transports) + 1),
       !.atCall = StdioAtCall(stdio),
       !.rejectedWith = undefined,
       !.pc = "start:connect"]
  /\ UNCHANGED <<env, cwd, fs, call, ret, probes, before, callers, prompts,
                 registered, http>>

\* connect has resolved
StdioStartConnected ==
  /\ stdio.pc = "start:connect"
  /\ stdio' = [stdio EXCEPT
       !.transports[stdio.transport[1]] = "connected",
       !.pc = "idle",
       !.last = Resolved("start")]
  /\ UNCHANGED <<env, cwd, fs, call, ret, probes, before, callers, prompts,
                 registered, http>>

\* connect has rejected: the fields are reset and the error is thrown again
StdioStartConnectRejected ==
  /\ stdio.pc = "start:connect"
  /\ \E e \in Errors :
       stdio' = [stdio EXCEPT
         !.transport = undefined,
         !.server = undefined,
         !.rejectedWith = Some(e),
         !.pc = "idle",
         !.last = Rejected("start", StartError(e))]
  /\ UNCHANGED <<env, cwd, fs, call, ret, probes, before, callers, prompts,
                 registered, http>>

\* stop() up to `await this.transport.close()`
StdioStop ==
  /\ stdio.pc = "idle"
  /\ stdio' =
       IF stdio.transport = undefined
         THEN [stdio EXCEPT !.atCall = StdioAtCall(stdio), !.last = Resolved("stop")]
         ELSE [stdio EXCEPT !.atCall = StdioAtCall(stdio), !.pc = "stop:close"]
  /\ UNCHANGED <<env, cwd, fs, call, ret, probes, before, callers, prompts,
                 registered, http>>

\* close() has resolved, or it has rejected, having closed the MCP
\* transport or not
StdioStopClosed ==
  /\ stdio.pc = "stop:close"
  /\ LET t == stdio.transport[1] IN
     \/ stdio' = [stdio EXCEPT !.transports[t] = "closed",
                               !.transport = undefined,
                               !.server = undefined,
                               !.pc = "idle",
                               !.last = Resolved("stop")]
     \/ \E state \in {stdio.transports[t], "closed"} :
          stdio' = [stdio EXCEPT !.transports[t] = state,
                                 !.pc = "idle",
                                 !.last = Rejected("stop", "CloseFailed")]
  /\ UNCHANGED <<env, cwd, fs, call, ret, probes, before, callers, prompts,
                 registered, http>>

\* the ports an HttpTransport is made with: 0 lets the system choose
Ports == {0, 3000}

InitTransports ==
  /\ env = [n \in EnvNames |-> undefined]
  /\ cwd = <<>>
  /\ fs = {}
  /\ call = undefined
  /\ ret = undefined
  /\ probes = <<>>
  /\ before = undefined
  /\ NoCallers
  /\ EmptyRegistry
  /\ \E port \in Ports : http = HttpNew(port)
  /\ stdio = StdioNew

NextTransports ==
  \/ HttpStart
  \/ HttpStartConnected
  \/ HttpStartConnectRejected
  \/ HttpStop
  \/ HttpStopServerClosed
  \/ HttpStopTransportClosed
  \/ HttpRequestMcp
  \/ StdioStart
  \/ StdioStartConnected
  \/ StdioStartConnectRejected
  \/ StdioStop
  \/ StdioStopClosed

SpecTransports == InitTransports /\ [][NextTransports]_vars

\* the last call on t has finished and it was fn, with this outcome
Finished(t, fn, outcome) ==
  /\ t.pc = "idle"
  /\ t.last # undefined
  /\ t.last[1].fn = fn
  /\ t.last[1].outcome = outcome

\* C22: for HttpTransport and StdioTransport, isRunning() is false on an
\* instance no call has been made on, true once start(server) has resolved
\* and false once stop() has resolved; a stop() called when there was
\* nothing to stop (never started, or stopped already) resolves without an
\* error and leaves isRunning() false
C22_RunningFollowsStartStop ==
  /\ http.atCall = undefined => ~HttpIsRunning(http)
  /\ stdio.atCall = undefined => ~StdioIsRunning(stdio)
  /\ Finished(http, "start", "resolved") => HttpIsRunning(http)
  /\ Finished(stdio, "start", "resolved") => StdioIsRunning(stdio)
  /\ Finished(http, "stop", "resolved") => ~HttpIsRunning(http)
  /\ Finished(stdio, "stop", "resolved") => ~StdioIsRunning(stdio)
  /\ \A t \in {http, stdio} :
       (t.pc = "idle" /\ t.last # undefined /\ t.last[1].fn = "stop"
          /\ t.atCall[1].nothingToStop)
         => t.last = Resolved("stop")

\* both transports were started and then stopped, and HttpTransport's
\* stop was called once more
C22_Witness ==
  /\ Finished(http, "stop", "resolved")
  /\ http.atCall[1].nothingToStop
  /\ http.atCall[1].after = Resolved("stop")
  /\ http.listeners = <<"closed">>
  /\ Finished(stdio, "stop", "resolved")
  /\ stdio.transports = <<"closed">>

\* both transports are running
C22_WitnessRunning ==
  /\ Finished(http, "start", "resolved")
  /\ http.listeners = <<"open">>
  /\ Finished(stdio, "start", "resolved")

\* stop() on transports that were never started
C22_WitnessNeverStarted ==
  /\ Finished(http, "stop", "resolved")
  /\ http.transports = <<>>
  /\ Finished(stdio, "stop", "resolved")
  /\ stdio.transports = <<>>

\* server.connect rejected during the start call that t finished last
ConnectRejected(t) ==
  /\ t.pc = "idle"
  /\ t.rejectedWith # undefined
  /\ t.last # undefined
  /\ t.last[1].fn = "start"

\* the call t finished last is a stop() that followed a start during which
\* server.connect rejected
StopAfterFailedStart(t) ==
  /\ t.pc = "idle"
  /\ t.last # undefined
  /\ t.last[1].fn = "stop"
  /\ t.atCall[1].after # undefined
  /\ t.atCall[1].after[1].fn = "start"
  /\ t.atCall[1].after[1].outcome = "rejected"

\* C27: when server.connect rejects during HttpTransport.start or
\* StdioTransport.start, start rejects with the very error connect rejected
\* with, isRunning() is false afterwards, that start has opened no HTTP
\* listener and left none in the instance, and the stop() that follows
\* resolves without an error
C27_FailedStartLeavesNothing ==
  /\ ConnectRejected(http) =>
       /\ http.last = Rejected("start", http.rejectedWith[1])
       /\ ~HttpIsRunning(http)
       /\ Len(http.listeners) = http.atCall[1].listeners
       /\ http.httpServer = undefined
  /\ ConnectRejected(stdio) =>
       /\ stdio.last = Rejected("start", stdio.rejectedWith[1])
       /\ ~StdioIsRunning(stdio)
  /\ StopAfterFailedStart(http) =>
       http.last = Resolved("stop") /\ ~HttpIsRunning(http)
  /\ StopAfterFailedStart(stdio) =>
       stdio.last = Resolved("stop") /\ ~StdioIsRunning(stdio)

\* connect rejected in the first start of both transports, with different
\* errors
C27_Witness ==
  /\ ConnectRejected(http)
  /\ http.rejectedWith = Some("E1")
  /\ http.transports = <<"new">>
  /\ ConnectRejected(stdio)
  /\ stdio.rejectedWith = Some("E2")

\* the stop() after the failed start has been made on both
C27_WitnessStop ==
  /\ StopAfterFailedStart(http)
  /\ http.listeners = <<>>
  /\ StopAfterFailedStart(stdio)

\* C29: whatever start and stop calls have been made on one HttpTransport,
\* start twice without a stop between them included, at most one HTTP
\* listener the instance opened is still open, and when the call finished
\* last is a stop() that resolved none is open
C29_AtMostOneListener ==
  /\ Cardinality(OpenListeners(http)) <= 1
  /\ Finished(http, "stop", "resolved") => OpenListeners(http) = {}

\* a start of the instance has resolved
HasStarted(h) == \E i \in DOMAIN h.listeners : TRUE

\* between calls, the MCP transport is unset in these cases and no other:
\* no start has resolved yet, the call finished last is a start that
\* failed, or it is a stop that resolved
UnsetCases(h) ==
  \/ ~HasStarted(h)
  \/ Finished(h, "start", "rejected")
  \/ Finished(h, "stop", "resolved")

\* a request to /mcp has been answered in this step
Answered == http'.response # http.response

\* the answer is 503 'Transport not initialized' exactly when the MCP
\* transport was unset
AnsweredByTransportField ==
  Answered =>
    LET r == http'.response[1] IN
      /\ r.status = 503 <=> http.transport = undefined
      /\ r.status = 503 => r.error = "Transport not initialized" /\ r.passedTo = undefined
      /\ r.status # 503 => r.passedTo # undefined /\ r.passedTo[1].transport = http.transport[1]

\* the request was not handed to a closed MCP transport
NotPassedToClosed ==
  Answered =>
    LET r == http'.response[1] IN
      r.passedTo # undefined => r.passedTo[1].state # "closed"

\* C30: whatever start and stop calls have been made on an HttpTransport, a
\* request to /mcp is answered with status 503 'Transport not initialized'
\* exactly when the MCP transport is unset, which between calls is the case
\* before the first start that resolved, after a start that failed and after
\* a stop that resolved, and no request is handed to a closed or an absent
\* MCP transport
C30_UnsetAnswers503 ==
  /\ [](http.pc = "idle" => (http.transport = undefined <=> UnsetCases(http)))
  /\ [][AnsweredByTransportField /\ NotPassedToClosed]_vars

(***************************************************************************)
(* The configuration (packages/mcp-server/src/config): defaults.ts,        *)
(* env.ts, config.ts.  A configuration is a function from field names to   *)
(* optional values, so that a field can be absent from a partial           *)
(* configuration, or present with the value undefined.                     *)
(***************************************************************************)
MIN_PORT == 1024
MAX_PORT == 65535

DEFAULT_CONFIG ==
  [serverName |-> Some("prompts-mcp-server"), serverVersion |-> Some("1.0.0"),
   httpPort |-> Some(3000), logLevel |-> Some("info"),
   enableStdio |-> Some(TRUE), enableHttp |-> Some(FALSE)]

ConfigurationError(message) ==
  [name |-> "ConfigurationError", message |-> message]

ConfigEnvNames ==
  {"CUSTOM_PROMPTS_DIR", "HTTP_PORT", "LOG_LEVEL", "ENABLE_STDIO", "ENABLE_HTTP"}

\* String.prototype.toLowerCase on the strings of the model
toLowerCase(s) ==
  CASE s = "TRUE" -> "true"
    [] s = "FALSE" -> "false"
    [] s = "Yes" -> "yes"
    [] s = "DEBUG" -> "debug"
    [] OTHER -> s

\* parseInt(value, 10) on the strings of the model; NaN is undefined
parseInt(s) ==
  CASE s = "8080" -> Some(8080)
    [] s = "80" -> Some(80)
    [] OTHER -> undefined

\* Object.assign(target, source)
assign(target, source) ==
  [k \in DOMAIN target \cup DOMAIN source |->
     IF k \in DOMAIN source THEN source[k] ELSE target[k]]

\* parseLogLevel(value): what it returns, or the error it throws
parseLogLevel(value) ==
  IF ~TruthyName(value)
    THEN [throws |-> undefined, value |-> DEFAULT_CONFIG.logLevel]
  ELSE IF toLowerCase(value[1]) \in {"error", "warn", "info", "debug"}
    THEN [throws |-> undefined, value |-> Some(toLowerCase(value[1]))]
    ELSE [throws |-> Some(ConfigurationError("Invalid log level")),
          value |-> undefined]

\* parsePort(value)
parsePort(value) ==
  IF ~TruthyName(value)
    THEN [throws |-> undefined, value |-> DEFAULT_CONFIG.httpPort]
  ELSE LET port == parseInt(value[1]) IN
    IF port = undefined \/ port[1] < MIN_PORT \/ port[1] > MAX_PORT
      THEN [throws |-> Some(ConfigurationError("Invalid port")),
            value |-> undefined]
      ELSE [throws |-> undefined, value |-> port]

\* parseBoolean(value, defaultValue)
parseBoolean(value, defaultValue) ==
  IF ~TruthyName(value) THEN defaultValue
  ELSE IF toLowerCase(value[1]) \in {"true", "1", "yes"} THEN Some(TRUE)
  ELSE IF toLowerCase(value[1]) \in {"false", "0", "no"} THEN Some(FALSE)
  ELSE defaultValue

\* the fields loadConfigFromEnv sets: those whose variable is set and not ""
EnvFields ==
  {f \in {[field |-> "customPromptsDir", name |-> "CUSTOM_PROMPTS_DIR"],
          [field |-> "httpPort", name |-> "HTTP_PORT"],
          [field |-> "logLevel", name |-> "LOG_LEVEL"],
          [field |-> "enableStdio", name |-> "ENABLE_STDIO"],
          [field |-> "enableHttp", name |-> "ENABLE_HTTP"]} :
     TruthyName(env[f.name])}

\* loadConfigFromEnv(): the partial configuration, or the error of the
\* first parser that throws
loadConfigFromEnv ==
  LET port == parsePort(env["HTTP_PORT"])
      level == parseLogLevel(env["LOG_LEVEL"])
      config ==
        [k \in {f.field : f \in EnvFields} |->
           CASE k = "customPromptsDir" -> env["CUSTOM_PROMPTS_DIR"]
             [] k = "httpPort" -> port.value
             [] k = "logLevel" -> level.value
             [] k = "enableStdio" ->
                  parseBoolean(env["ENABLE_STDIO"], DEFAULT_CONFIG.enableStdio)
             [] k = "enableHttp" ->
                  parseBoolean(env["ENABLE_HTTP"], DEFAULT_CONFIG.enableHttp)]
  IN IF TruthyName(env["HTTP_PORT"]) /\ port.throws # undefined
       THEN [throws |-> port.throws, value |-> undefined]
     ELSE IF TruthyName(env["LOG_LEVEL"]) /\ level.throws # undefined
       THEN [throws |-> level.throws, value |-> undefined]
       ELSE [throws |-> undefined, value |-> Some(config)]

\* `!config.enableStdio`: the field is absent, undefined or false
Disabled(config, flag) ==
  flag \notin DOMAIN config \/ config[flag] # Some(TRUE)

\* validateConfig(config): the error it throws, if any.  The test of
\* customPromptsDir cannot fail: every value the field gets is a string.
validateConfig(config) ==
  IF Disabled(config, "enableStdio") /\ Disabled(config, "enableHttp")
    THEN Some(ConfigurationError("At least one transport (stdio or HTTP) must be enabled"))
    ELSE undefined

\* loadConfig validating what the environment gave before the CLI
\* arguments are merged
loadConfig_validatedBeforeCli(cliConfig) ==
  LET envConfig == loadConfigFromEnv IN
  IF envConfig.throws # undefined
    THEN [throws |-> envConfig.throws, value |-> undefined]
  ELSE LET merged == assign(DEFAULT_CONFIG, envConfig.value[1]) IN
    IF validateConfig(merged) # undefined
      THEN [throws |-> validateConfig(merged), value |-> undefined]
      ELSE [throws |-> undefined,
            value |-> Some(IF cliConfig # undefined
                             THEN assign(merged, cliConfig[1]) ELSE merged)]

\* loadConfig(cliConfig?)
loadConfig(cliConfig) ==
  LET envConfig == loadConfigFromEnv IN
  IF envConfig.throws # undefined
    THEN [throws |-> envConfig.throws, value |-> undefined]
  ELSE LET merged == assign(DEFAULT_CONFIG, envConfig.value[1])
           config == IF cliConfig # undefined
                       THEN assign(merged, cliConfig[1]) ELSE merged
       IN IF validateConfig(config) # undefined
            THEN [throws |-> validateConfig(config), value |-> undefined]
            ELSE [throws |-> undefined, value |-> Some(config)]

\* the values a caller's partial configuration gives a flag; undefined is
\* the flag spelled out with no value
FlagValues == {Some(TRUE), Some(FALSE), undefined}

\* the CLI arguments: no object, or an object with some of the two flags
CliConfigs ==
  {undefined} \cup
  {Some([k \in D |-> v[k]]) :
     D \in SUBSET {"enableStdio", "enableHttp"},
     v \in [{"enableStdio", "enableHttp"} -> FlagValues]}

ConfigEnvStates ==
  {e \in [ConfigEnvNames -> Optional({"", "/c", "8080", "80", "DEBUG",
                                      "verbose", "true", "FALSE", "0", "maybe"})] :
     /\ e["CUSTOM_PROMPTS_DIR"] \in Optional({"/c"})
     /\ e["HTTP_PORT"] \in Optional({"8080", "80"})
     /\ e["LOG_LEVEL"] \in Optional({"DEBUG", "verbose"})
     /\ e["ENABLE_STDIO"] \in Optional({"", "true", "FALSE", "0", "maybe"})
     /\ e["ENABLE_HTTP"] \in Optional({"", "true", "FALSE", "0", "maybe"})}

InitConfig ==
  /\ env \in ConfigEnvStates
  /\ cwd = <<>>
  /\ fs = {}
  /\ call = undefined
  /\ ret = undefined
  /\ probes = <<>>
  /\ before = undefined
  /\ NoCallers
  /\ EmptyRegistry
  /\ NoTransports

\* a call of loadConfig
LoadConfig ==
  \E cliConfig \in CliConfigs :
    /\ call = undefined
    /\ call' = Some([fn |-> "loadConfig", cliConfig |-> cliConfig])
    /\ ret' = Some(loadConfig(cliConfig))
    /\ UNCHANGED <<env, cwd, fs, probes, before, callers, prompts, registered,
                   http, stdio>>

\* startServer: the configuration is loaded (line 541) and the transports
\* it enables are started (628-655); a start that rejects ends startServer
\* with its error
StartServerTransports ==
  \E stdioStarts, httpStarts \in BOOLEAN :
    /\ call = undefined
    /\ call' = Some([fn |-> "startServer", cliConfig |-> undefined])
    /\ LET loaded == loadConfig(undefined) IN
       IF loaded.throws # undefined
         THEN ret' = Some([outcome |-> "threw", transports |-> <<>>])
       ELSE LET config == loaded.value[1]
                wantStdio == ~Disabled(config, "enableStdio")
                wantHttp == ~Disabled(config, "enableHttp")
                afterStdio == IF wantStdio THEN <<"stdio">> ELSE <<>>
                transports == IF wantHttp THEN Append(afterStdio, "http")
                                          ELSE afterStdio
            IN IF (wantStdio /\ ~stdioStarts) \/ (wantHttp /\ ~httpStarts)
                 THEN ret' = Some([outcome |-> "threw", transports |-> <<>>])
               ELSE IF Len(transports) = 0
                 THEN ret' = Some([outcome |-> "exit", transports |-> transports])
                 ELSE ret' = Some([outcome |-> "started", transports |-> transports])
    /\ UNCHANGED <<env, cwd, fs, probes, before, callers, prompts, registered,
                   http, stdio>>

NextConfig == LoadConfig \/ StartServerTransports \/ Discard

SpecConfig == InitConfig /\ [][NextConfig]_vars

\* the variable of the environment a flag is read from
FlagEnvName(flag) == IF flag = "enableStdio" THEN "ENABLE_STDIO" ELSE "ENABLE_HTTP"

\* the flag is on in the configuration merged from the defaults, then the
\* environment, then the CLI arguments
MergedOn(flag, cliConfig) ==
  IF cliConfig # undefined /\ flag \in DOMAIN cliConfig[1]
    THEN cliConfig[1][flag] = Some(TRUE)
  ELSE IF TruthyName(env[FlagEnvName(flag)])
    THEN parseBoolean(env[FlagEnvName(flag)], DEFAULT_CONFIG[flag]) = Some(TRUE)
    ELSE DEFAULT_CONFIG[flag] = Some(TRUE)

Called(fn) == call # undefined /\ call[1].fn = fn

\* C23: loadConfig throws ConfigurationError whenever both enableStdio and
\* enableHttp are off in the configuration merged from the defaults, then
\* the environment, then the CLI arguments; so every configuration it
\* returns has a transport enabled, and startServer never takes its
\* 'no transports enabled' exit
C23_NoConfigWithoutTransport ==
  /\ Called("loadConfig") =>
       /\ (~MergedOn("enableStdio", call[1].cliConfig)
             /\ ~MergedOn("enableHttp", call[1].cliConfig))
            => /\ ret[1].throws # undefined
               /\ ret[1].throws[1].name = "ConfigurationError"
       /\ ret[1].throws = undefined =>
            \/ ret[1].value[1].enableStdio = Some(TRUE)
            \/ ret[1].value[1].enableHttp = Some(TRUE)
  /\ Called("startServer") => ret[1].outcome # "exit"

\* the CLI arguments switch off stdio, which nothing else had switched off,
\* and loadConfig throws
C23_Witness ==
  /\ Called("loadConfig")
  /\ \A n \in ConfigEnvNames : env[n] = undefined
  /\ call[1].cliConfig = Some([enableStdio |-> Some(FALSE)])
  /\ ret[1].throws =
       Some(ConfigurationError("At least one transport (stdio or HTTP) must be enabled"))

\* the environment switches stdio off and startServer ends with the error
C23_WitnessStartServer ==
  /\ Called("startServer")
  /\ env["ENABLE_STDIO"] = Some("FALSE")
  /\ env["ENABLE_HTTP"] = Some("maybe")
  /\ env["LOG_LEVEL"] = undefined
  /\ ret[1].outcome = "threw"

\* the CLI arguments switch http on over an environment that switches both
\* off, and the configuration is returned
C23_WitnessReturned ==
  /\ Called("loadConfig")
  /\ env["ENABLE_STDIO"] = Some("0")
  /\ env["ENABLE_HTTP"] = Some("FALSE")
  /\ call[1].cliConfig = Some([enableHttp |-> Some(TRUE)])
  /\ ret[1].throws = undefined
  /\ ret[1].value[1].enableStdio = Some(FALSE)

\* the same calls in a world with regular files and locked directories
InitKinds ==
  /\ env \in EnvKindStates
  /\ cwd = <<"p">>
  /\ fs \in FsKindStates
  /\ call = undefined
  /\ ret = undefined
  /\ probes = <<>>
  /\ before = undefined
  /\ NoCallers
  /\ EmptyRegistry
  /\ NoTransports

SpecKinds == InitKinds /\ [][Next]_vars

(***************************************************************************)
(* Vocabulary of the properties.                                           *)
(***************************************************************************)
Returned == call # undefined
Request == call[1].options
Result == ret[1]

ProjectSources == {"project", "env-project"}

\* the value of the variable {subdirEnvPrefix}_SUBDIR of a request
OverrideValue(o) ==
  IF IsDefined(o.subdirEnvPrefix)
    THEN process_env(o.subdirEnvPrefix[1] \o "_SUBDIR")
    ELSE undefined

\* a path without "." and ".." segments in absolute form
AbsoluteForm(p) == AbsPath(IF p.abs THEN p.segs ELSE cwd \o p.segs)

Join(dir, sub) == AbsPath(dir.segs \o sub.segs)

\* the directory the search of a request starts at
EffectiveStart(o) == resolve(getStartDirectory(o.startDir))

\* the ancestor of d that is k segments long; the chain from d to the root
Ancestor(d, k) == AbsPath(SubSeq(d.segs, 1, k))
Chain(d) == {Ancestor(d, k) : k \in 0..Len(d.segs)}

PathExists(p) == p.segs = <<>> \/ \E e \in fs : IsPrefix(p.segs, e.path)

HitsOn(d, sub) == {k \in 0..Len(d.segs) : PathExists(Join(Ancestor(d, k), sub))}

\* the candidate of the directory of the chain nearest to d that exists
NearestHit(d, sub) ==
  LET k == CHOOSE i \in HitsOn(d, sub) : \A j \in HitsOn(d, sub) : j <= i
  IN  Join(Ancestor(d, k), sub)

SearchProbes == {probes[i] : i \in {j \in DOMAIN probes : probes[j].at = "search"}}
HomeProbes == {probes[i] : i \in {j \in DOMAIN probes : probes[j].at = "home"}}

(***************************************************************************)
(* Override precedence.                                                    *)
(***************************************************************************)
\* C1 as stated: whenever subdirEnvPrefix is given and {subdirEnvPrefix}_SUBDIR
\* is set to a non-empty value, the result is the override, resolved.
C1_OverrideWhenPrefixGiven ==
  Returned =>
    (IsDefined(Request.subdirEnvPrefix) /\ Truthy(OverrideValue(Request)) =>
       /\ Result.source = "env-subdir"
       /\ Result.path = AbsoluteForm(OverrideValue(Request)[1]))

\* C1 amended: whenever subdirEnvPrefix is given and not the empty string and
\* {subdirEnvPrefix}_SUBDIR is set to a non-empty value, the result has source
\* env-subdir and the path is that value in absolute form.
C1_OverrideWhenPrefixNonEmpty ==
  Returned =>
    (TruthyName(Request.subdirEnvPrefix) /\ Truthy(OverrideValue(Request)) =>
       /\ Result.source = "env-subdir"
       /\ Result.path = AbsoluteForm(OverrideValue(Request)[1]))

\* the override is taken with a relative value while the subdirectory exists
\* at the start directory and PROJECT_DIR is set
C1_Witness ==
  /\ Returned
  /\ Request.subdirEnvPrefix = Some("PROMPTS")
  /\ env["PROMPTS_SUBDIR"] = Some(RelPath(<<"o">>))
  /\ env[PROJECT_DIR_ENV_VAR] = Some(AbsPath(<<"p", "q">>))
  /\ cwd = <<"p">>
  /\ PathExists(Join(EffectiveStart(Request), Request.subdir))
  /\ Result.source = "env-subdir"
  /\ Result.path = AbsPath(<<"p", "o">>)

\* C2: when the override variable a request consults is set and non-empty, the
\* path is the override path, never a candidate of the search or the home
\* path, although the subdirectory exists there; exists is false when nothing
\* is at the override path.
C2_OverrideBeatsSearchAndHome ==
  Returned =>
    (TruthyName(Request.subdirEnvPrefix) /\ Truthy(OverrideValue(Request)) =>
       LET overridePath == AbsoluteForm(OverrideValue(Request)[1]) IN
       /\ Result.path = overridePath
       /\ Result.path \notin
            {Join(d, Request.subdir) : d \in Chain(EffectiveStart(Request))}
       /\ Result.path # Join(homedir, homeSubdirOf(Request))
       /\ ~PathExists(overridePath) => Result.exists = FALSE
       /\ SearchProbes = {} /\ HomeProbes = {})

\* the override points at nothing while the subdirectory exists at the start
\* directory and under the home directory
C2_Witness ==
  /\ Returned
  /\ TruthyName(Request.subdirEnvPrefix)
  /\ Truthy(OverrideValue(Request))
  /\ ~PathExists(AbsoluteForm(OverrideValue(Request)[1]))
  /\ PathExists(Join(EffectiveStart(Request), Request.subdir))
  /\ PathExists(Join(homedir, homeSubdirOf(Request)))
  /\ Result.exists = FALSE
  /\ Result.source = "env-subdir"

(***************************************************************************)
(* The start directory and the source tag.                                 *)
(***************************************************************************)
\* the search of the returned call began at d and went up from there, and a
\* project result is a candidate of the chain of d
SearchedFrom(d) ==
  /\ probes # <<>>
  /\ probes[1] = Probe("search", Join(d, Request.subdir))
  /\ \A pr \in SearchProbes : \E c \in Chain(d) : pr.path = Join(c, Request.subdir)
  /\ (Result.source \in ProjectSources /\ Result.exists) =>
        \E c \in Chain(d) : Result.path = Join(c, Request.subdir)

\* C3 as stated: with no override taken and PROJECT_DIR set, the search starts
\* at PROJECT_DIR resolved and startDir is ignored.
C3_ProjectDirSetWins ==
  (Returned /\ ~overrideTaken(Request) /\ IsDefined(env[PROJECT_DIR_ENV_VAR])) =>
    /\ SearchedFrom(resolve(env[PROJECT_DIR_ENV_VAR][1]))
    /\ discoverDirectory(Request)
         = discoverDirectory([Request EXCEPT !.startDir = undefined])

\* C3 amended: with no override taken and PROJECT_DIR set to a non-empty
\* value, the search starts at PROJECT_DIR resolved and startDir is ignored.
C3_ProjectDirNonEmptyWins ==
  (Returned /\ ~overrideTaken(Request) /\ Truthy(env[PROJECT_DIR_ENV_VAR])) =>
    /\ SearchedFrom(resolve(env[PROJECT_DIR_ENV_VAR][1]))
    /\ discoverDirectory(Request)
         = discoverDirectory([Request EXCEPT !.startDir = undefined])

\* PROJECT_DIR=.. from /p makes the root the start directory; the subdirectory
\* exists at startDir /p/q only, and the search does not find it
C3_Witness ==
  /\ Returned
  /\ ~overrideTaken(Request)
  /\ env[PROJECT_DIR_ENV_VAR] = Some(RelPath(<<"..">>))
  /\ cwd = <<"p">>
  /\ Request.startDir = Some(AbsPath(<<"p", "q">>))
  /\ Request.subdir = RelPath(<<"t">>)
  /\ PathExists(AbsPath(<<"p", "q", "t">>))
  /\ ~PathExists(AbsPath(<<"t">>))
  /\ Result.source = "home"

\* C4: a result with source project or env-project has env-project exactly
\* when the start directory was taken from PROJECT_DIR, whatever its value.
C4_SourceTellsStart ==
  (Returned /\ Result.source \in ProjectSources) =>
    (Result.source = "env-project" <=> Truthy(env[PROJECT_DIR_ENV_VAR]))

\* PROJECT_DIR is the empty string: the search starts at startDir, finds the
\* subdirectory there, and the result is tagged env-project
C4_Witness ==
  /\ Returned
  /\ env[PROJECT_DIR_ENV_VAR] = Some(EmptyString)
  /\ Request.startDir = Some(AbsPath(<<"p", "q">>))
  /\ Result = [path |-> AbsPath(<<"p", "q", "t">>), source |-> "env-project",
               exists |-> TRUE]

(***************************************************************************)
(* The upward search.                                                      *)
(***************************************************************************)
\* C5: with no override taken and the subdirectory existing somewhere on the
\* chain from the start directory to the root, the result is the candidate of
\* the nearest such directory, with exists true; the checks made are those of
\* the directories from the start directory down to that one, nearest first.
C5_NearestCandidateWins ==
  (Returned /\ ~overrideTaken(Request)) =>
    LET d == EffectiveStart(Request)
        n == Len(d.segs)
    IN  HitsOn(d, Request.subdir) # {} =>
          /\ Result.path = NearestHit(d, Request.subdir)
          /\ Result.exists = TRUE
          /\ Result.source \in ProjectSources
          /\ \E c \in Chain(d) : Result.path = Join(c, Request.subdir)
          /\ \A i \in DOMAIN probes :
               probes[i] = Probe("search", Join(Ancestor(d, n + 1 - i), Request.subdir))
          /\ probes[Len(probes)].path = Result.path

\* the start directory is /p/q, the subdirectory exists at /p and at the root
\* and not at /p/q: the nearer of the two is returned
C5_Witness ==
  /\ Returned
  /\ ~overrideTaken(Request)
  /\ EffectiveStart(Request) = AbsPath(<<"p", "q">>)
  /\ Request.subdir = RelPath(<<"t">>)
  /\ HitsOn(EffectiveStart(Request), Request.subdir) = {0, 1}
  /\ Result.path = AbsPath(<<"p", "t">>)
  /\ Len(probes) = 2

\* C6: the root is a candidate: when the subdirectory exists under the root
\* and under no nearer directory of the chain, the result is root + subdir
\* with a project source, for a start directory below the root and for the
\* root as start directory.
C6_RootIsChecked ==
  (Returned /\ ~overrideTaken(Request)) =>
    LET d == EffectiveStart(Request) IN
    HitsOn(d, Request.subdir) = {0} =>
      /\ Result.path = AbsPath(Request.subdir.segs)
      /\ Result.source \in ProjectSources
      /\ Result.exists = TRUE
      /\ Len(probes) = Len(d.segs) + 1

\* the start directory is the root and the subdirectory exists under it
C6_Witness ==
  /\ Returned
  /\ ~overrideTaken(Request)
  /\ EffectiveStart(Request) = AbsPath(<<>>)
  /\ HitsOn(EffectiveStart(Request), Request.subdir) = {0}
  /\ Result.path = AbsPath(<<"t">>)
  /\ Result.exists = TRUE

\* the start directory is /p/q and the subdirectory exists under the root only
C6_WitnessBelowRoot ==
  /\ Returned
  /\ ~overrideTaken(Request)
  /\ EffectiveStart(Request) = AbsPath(<<"p", "q">>)
  /\ HitsOn(EffectiveStart(Request), Request.subdir) = {0}
  /\ Result.path = AbsPath(<<"t">>)
  /\ Len(probes) = 3

(***************************************************************************)
(* The home fallback.                                                      *)
(***************************************************************************)
\* C7: the source is home exactly when no override was taken, no candidate of
\* the chain exists and useHomeFallback is true or left out; the path then
\* lies under the home directory, whether it exists or not and whether
\* PROJECT_DIR was used or not.
C7_HomeIffNothingFound ==
  Returned =>
    /\ Result.source = "home" <=>
         /\ ~overrideTaken(Request)
         /\ HitsOn(EffectiveStart(Request), Request.subdir) = {}
         /\ Request.useHomeFallback \in {undefined, Some(TRUE)}
    /\ Result.source = "home" =>
         /\ IsPrefix(homedir.segs, Result.path.segs)
         /\ Result.path.abs

\* nothing is found from PROJECT_DIR, useHomeFallback is left out, and the
\* home path does not exist
C7_Witness ==
  /\ Returned
  /\ Truthy(env[PROJECT_DIR_ENV_VAR])
  /\ Request.useHomeFallback = undefined
  /\ HitsOn(EffectiveStart(Request), Request.subdir) = {}
  /\ Result.source = "home"
  /\ ~PathExists(Result.path)
  /\ Result.exists = FALSE

\* C8: with no override taken, no candidate on the chain and useHomeFallback
\* false, the result is the start directory joined with subdir, exists false,
\* source project or env-project, and the home directory is not checked.
C8_NoFallbackMiss ==
  (Returned /\ ~overrideTaken(Request)
     /\ HitsOn(EffectiveStart(Request), Request.subdir) = {}
     /\ Request.useHomeFallback = Some(FALSE)) =>
    /\ Result.path = Join(EffectiveStart(Request), Request.subdir)
    /\ Result.exists = FALSE
    /\ Result.source \in ProjectSources
    /\ HomeProbes = {}
    /\ Len(probes) = Len(EffectiveStart(Request).segs) + 1

\* the fallback is off, the start directory /p/q is not the working directory,
\* nothing is on the chain and the home path exists
C8_Witness ==
  /\ Returned
  /\ ~overrideTaken(Request)
  /\ Request.useHomeFallback = Some(FALSE)
  /\ cwd = <<"p">>
  /\ EffectiveStart(Request) = AbsPath(<<"p", "q">>)
  /\ HitsOn(EffectiveStart(Request), Request.subdir) = {}
  /\ PathExists(Join(homedir, homeSubdirOf(Request)))
  /\ Result.path = Join(AbsPath(<<"p", "q">>), Request.subdir)
  /\ Result.exists = FALSE

\* C9: when the home fallback is taken with a homeSubdir that differs from
\* subdir, the path is the home directory joined with homeSubdir and not with
\* subdir, while the search before it checked candidates of subdir and none of
\* homeSubdir; with homeSubdir left out the home path is that of subdir.
C9_HomeSubdirOnlyAtHome ==
  (Returned /\ Result.source = "home") =>
    /\ (IsDefined(Request.homeSubdir) /\ Request.homeSubdir[1] # Request.subdir) =>
          /\ Result.path = Join(homedir, Request.homeSubdir[1])
          /\ Result.path # Join(homedir, Request.subdir)
          /\ HomeProbes = {Probe("home", Join(homedir, Request.homeSubdir[1]))}
          /\ SearchProbes # {}
          /\ \A pr \in SearchProbes :
               /\ \E c \in Chain(EffectiveStart(Request)) :
                     pr.path = Join(c, Request.subdir)
               /\ \A c \in Chain(EffectiveStart(Request)) :
                     pr.path # Join(c, Request.homeSubdir[1])
    /\ Request.homeSubdir = undefined =>
          Result.path = Join(homedir, Request.subdir)

\* the fallback is taken with homeSubdir u for subdir t, and /h/t exists
C9_Witness ==
  /\ Returned
  /\ Result.source = "home"
  /\ Request.subdir = RelPath(<<"t">>)
  /\ Request.homeSubdir = Some(RelPath(<<"u">>))
  /\ PathExists(AbsPath(<<"h", "t">>))
  /\ Result.path = AbsPath(<<"h", "u">>)
  /\ Result.exists = FALSE

(***************************************************************************)
(* Existence of project results.                                           *)
(***************************************************************************)
\* C10 as stated: every result with source project or env-project has exists
\* true.
C10_ProjectResultsExist ==
  (Returned /\ Result.source \in ProjectSources) => Result.exists = TRUE

\* C10 amended: a result with source project or env-project has exists true
\* exactly when the upward search found a candidate; the result returned when
\* it found none and useHomeFallback is false has exists false.
C10_ProjectResultsExistIffFound ==
  (Returned /\ Result.source \in ProjectSources) =>
    /\ Result.exists <=> HitsOn(EffectiveStart(Request), Request.subdir) # {}
    /\ ~Result.exists <=>
         /\ Request.useHomeFallback = Some(FALSE)
         /\ \A c \in Chain(EffectiveStart(Request)) :
              ~PathExists(Join(c, Request.subdir))
    /\ Result.exists => PathExists(Result.path)

\* the fallback is off and the search finds t/u at /p: a project result that
\* exists
C10_Witness ==
  /\ Returned
  /\ Result.source = "project"
  /\ Request.useHomeFallback = Some(FALSE)
  /\ Result.exists = TRUE
  /\ Result.path = AbsPath(<<"p", "t", "u">>)

(***************************************************************************)
(* What exists says.                                                       *)
(***************************************************************************)
\* what lies at an absolute path, whether the process may look or not
IsDirectoryAt(p) ==
  \/ p.segs = <<>>
  \/ \E e \in fs : IsPrefix(p.segs, e.path) /\ (e.path # p.segs \/ e.kind # "file")
IsFileAt(p) == \E e \in fs : e.path = p.segs /\ e.kind = "file"

\* asking about p fails: a directory above it may not be searched
LookupDenied(p) ==
  \E e \in fs : /\ e.kind = "locked"
                /\ e.path # p.segs
                /\ IsPrefix(e.path, p.segs)

C11_WitnessOverrideFile ==
  Returned /\ Result.source = "env-subdir" /\ IsFileAt(Result.path) /\ Result.exists
C11_WitnessHomeFile ==
  Returned /\ Result.source = "home" /\ IsFileAt(Result.path) /\ Result.exists

(***************************************************************************)
(* An override variable that is set to the empty string.                   *)
(***************************************************************************)
\* C12: with {subdirEnvPrefix}_SUBDIR set to the empty string every request
\* gets the result, and makes the existence checks, it gets with the variable
\* absent: once an empty override variable has been removed, every request
\* returns what it returned before.
C12_EmptyOverrideIsUnset ==
  (/\ before # undefined
   /\ before[1].name \in {"PROMPTS_SUBDIR", "_SUBDIR"}
   /\ before[1].value = EmptyString) =>
     \A o \in Options : discoverDirectory(o) = before[1].outcome[o]

\* PROMPTS_SUBDIR was "" and has been removed; a request with the prefix
\* PROMPTS had gone on to the search and found the subdirectory
C12_Witness ==
  /\ before # undefined
  /\ before[1].name = "PROMPTS_SUBDIR"
  /\ before[1].value = EmptyString
  /\ \E o \in Options :
       /\ o.subdirEnvPrefix = Some("PROMPTS")
       /\ before[1].outcome[o].result.source \in ProjectSources
       /\ before[1].outcome[o].result.exists
       /\ before[1].outcome[o].probes[1].at = "search"
       /\ discoverDirectory(o) = before[1].outcome[o]

(***************************************************************************)
(* Nothing found is no error.                                              *)
(***************************************************************************)
Sources == {"env-subdir", "env-project", "project", "home"}

\* nothing is to be found for a request: its override path, every candidate of
\* its chain and its home path fail the existence check
NothingToFind(o) ==
  /\ overrideTaken(o) => ~existsSync(resolve(OverrideValue(o)[1]))
  /\ \A c \in Chain(EffectiveStart(o)) : ~existsSync(Join(c, o.subdir))
  /\ ~existsSync(Join(homedir, homeSubdirOf(o)))

\* C13: every request, in every environment and filesystem state, gets a
\* result: a record with an absolute, hence non-empty, path, one of the four
\* sources and a boolean; when nothing is found the result is of that shape
\* and has exists false.
C13_NotFoundIsAResult ==
  /\ call = undefined =>
       \A o \in Options :
         LET r == discoverDirectory(o).result IN
         /\ r.path.abs
         /\ r.source \in Sources
         /\ r.exists \in BOOLEAN
         /\ NothingToFind(o) => r.exists = FALSE
  /\ Returned =>
       /\ ret # undefined
       /\ Result.path.abs
       /\ NothingToFind(Request) => Result.exists = FALSE

\* the filesystem is empty and a request has returned a home path that does
\* not exist
C13_Witness ==
  /\ Returned
  /\ fs = {}
  /\ NothingToFind(Request)
  /\ Result.source = "home"
  /\ Result.exists = FALSE
  /\ Result.path = Join(homedir, Request.subdir)

(***************************************************************************)
(* The exported functions only read.                                       *)
(***************************************************************************)
CalledFn == call[1].fn

\* the path a returned call resolved
ResolvedPath == discoverDirectory(Request).result.path

\* the way through the algorithm a request takes
PathTaken(o) ==
  IF overrideTaken(o) THEN "override"
  ELSE IF HitsOn(EffectiveStart(o), o.subdir) # {} THEN "project hit"
  ELSE IF useHomeFallbackOf(o) THEN "home fallback"
  ELSE "no-fallback miss"

\* C15: a step in which discoverDirectory, findDirectory or directoryExists
\* runs leaves the environment variables, the current working directory and
\* the filesystem as they were, on each way through the algorithm; a path
\* reported as missing is still missing after the call.
C15_CallsOnlyRead ==
  [][(call = undefined /\ call' # undefined) =>
       /\ env' = env
       /\ cwd' = cwd
       /\ fs' = fs
       /\ (call'[1].fn = "discoverDirectory" /\ ~ret'[1].exists) =>
            ~(existsSync(ret[1].path))']_vars

\* a no-fallback miss has returned and its path is still not there
C15_Witness ==
  /\ Returned
  /\ CalledFn = "discoverDirectory"
  /\ PathTaken(Request) = "no-fallback miss"
  /\ ~Result.exists
  /\ statSync(Result.path) = "ENOENT"

C15_WitnessOverride ==
  Returned /\ CalledFn = "findDirectory" /\ PathTaken(Request) = "override"

C15_WitnessProjectHit ==
  Returned /\ CalledFn = "directoryExists" /\ PathTaken(Request) = "project hit"

C15_WitnessHome ==
  /\ Returned
  /\ CalledFn = "directoryExists"
  /\ PathTaken(Request) = "home fallback"
  /\ ret[1] = FALSE

C16_WitnessFindHome ==
  /\ Returned
  /\ CalledFn = "findDirectory"
  /\ PathTaken(Request) = "home fallback"
  /\ ret[1] = Join(homedir, homeSubdirOf(Request))

(***************************************************************************)
(* Results carry absolute normalized paths.                                *)
(***************************************************************************)
Normalized(p) ==
  /\ p.abs
  /\ \A i \in 1..Len(p.segs) : p.segs[i] \notin {".", ".."}

Parent(d) == IF d = <<>> THEN <<>> ELSE SubSeq(d, 1, Len(d) - 1)

\* the start directory of a request was given as a relative string
RelativeStart(o) == ~getStartDirectory(o.startDir).abs

\* C17: the path of a result is absolute and has no "." or ".." segment,
\* whatever its source; a relative override value is the working directory
\* followed by it, and a search from a relative PROJECT_DIR or startDir
\* yields a path below the working directory (for "..", its parent) or one of
\* its ancestors.
C17_PathsAbsoluteNormalized ==
  Returned =>
    /\ Normalized(Result.path)
    /\ Result.source \in Sources
    /\ (Result.source = "env-subdir" /\ ~OverrideValue(Request)[1].abs) =>
         Result.path = AbsPath(cwd \o OverrideValue(Request)[1].segs)
    /\ (Result.source \in ProjectSources /\ RelativeStart(Request)) =>
         \E k \in 0..Len(cwd) + 1 :
           /\ k <= Len(EffectiveStart(Request).segs)
           /\ Result.path = Join(Ancestor(EffectiveStart(Request), k), Request.subdir)
    /\ (RelativeStart(Request) /\ Truthy(process_env(PROJECT_DIR_ENV_VAR))) =>
         EffectiveStart(Request) = AbsPath(Parent(cwd))
    /\ (RelativeStart(Request) /\ ~Truthy(process_env(PROJECT_DIR_ENV_VAR))) =>
         EffectiveStart(Request) = AbsPath(cwd \o Request.startDir[1].segs)

\* PROJECT_DIR is "..", nothing is found and the path returned is the
\* candidate of the parent of the working directory
C17_Witness ==
  /\ Returned
  /\ process_env(PROJECT_DIR_ENV_VAR) = Some(RelPath(<<"..">>))
  /\ PathTaken(Request) = "no-fallback miss"
  /\ Result.source = "env-project"
  /\ Result.path = AbsPath(Parent(cwd) \o Request.subdir.segs)

\* a relative override value
C17_WitnessOverride ==
  /\ Returned
  /\ Result.source = "env-subdir"
  /\ ~OverrideValue(Request)[1].abs
  /\ Result.path = AbsPath(cwd \o <<"o">>)

\* a relative startDir
C17_WitnessStartDir ==
  /\ Returned
  /\ Result.source = "project"
  /\ Request.startDir = Some(RelPath(<<"q">>))
  /\ Result.path = AbsPath(cwd \o <<"q">> \o Request.subdir.segs)

\* the home directory
C17_WitnessHome ==
  Returned /\ Result.source = "home" /\ Normalized(Result.path)

(***************************************************************************)
(* A check the process is not permitted to make.                           *)
(***************************************************************************)
\* the existence check that probe i stands for failed with EACCES
DeniedProbe(i) == statSync(probes[i].path) = "EACCES"

\* C18: a call returns a result also when existence checks are denied; a
\* denied override path and a denied home path are returned with exists
\* false; a denied candidate of the upward search is not the hit, and unless
\* it is the candidate of the root the next check is that of the parent
\* directory's candidate.
C18_DeniedIsAbsent ==
  Returned =>
    /\ ret # undefined
    /\ Result.source \in Sources
    /\ (Result.source = "env-subdir" /\ LookupDenied(Result.path)) =>
         ~Result.exists
    /\ (Result.source = "home" /\ LookupDenied(Result.path)) =>
         ~Result.exists
    /\ \A i \in DOMAIN probes :
         (probes[i].at = "search" /\ DeniedProbe(i)) =>
           /\ ~(Result.exists /\ Result.path = probes[i].path)
           /\ Len(probes[i].path.segs) > Len(Request.subdir.segs) =>
                /\ i + 1 \in DOMAIN probes
                /\ probes[i + 1].at = "search"
                /\ probes[i + 1].path =
                     Join(AbsPath(SubSeq(probes[i].path.segs, 1,
                                         Len(probes[i].path.segs)
                                           - Len(Request.subdir.segs) - 1)),
                          Request.subdir)

\* the nearest candidate was denied, the search went on and found the
\* subdirectory further up
C18_Witness ==
  /\ Returned
  /\ probes # <<>>
  /\ probes[1].at = "search"
  /\ DeniedProbe(1)
  /\ Result.source \in ProjectSources
  /\ Result.exists
  /\ Result.path # probes[1].path

\* a denied override path
C18_WitnessOverride ==
  /\ Returned
  /\ Result.source = "env-subdir"
  /\ LookupDenied(Result.path)
  /\ ~Result.exists

\* a denied home path
C18_WitnessHome ==
  /\ Returned
  /\ Result.source = "home"
  /\ LookupDenied(Result.path)
  /\ ~Result.exists

(***************************************************************************)
(* Calls that overlap.                                                     *)
(***************************************************************************)
\* what the call of caller c returns when it runs alone in this state
Alone(c) == discoverDirectory(callers[c].options[1]).result

\* C19: however the steps of two calls are interleaved, a call that has
\* returned has returned the result it returns when run alone in the same
\* environment and filesystem, and a call in its search loop is at a directory
\* of the chain of its own start directory.
C19_InterleavedAsAlone ==
  \A c \in Callers :
    /\ callers[c].pc = "done" => callers[c].ret[1] = Alone(c)
    /\ callers[c].pc = "search" =>
         /\ callers[c].currentDir[1] \in Chain(EffectiveStart(callers[c].options[1]))
         /\ Alone(c).source # "env-subdir"
    /\ callers[c].pc = "home" => Alone(c).source = "home"

\* the first caller has found its directory while the second, asking for
\* another subdirectory, has passed that place and is further up the chain
C19_Witness ==
  /\ callers[1].pc = "done"
  /\ callers[1].ret[1].source \in ProjectSources
  /\ callers[1].ret[1].exists
  /\ callers[2].pc = "search"
  /\ callers[2].options[1].subdir # callers[1].options[1].subdir
  /\ Len(callers[2].currentDir[1].segs) + Len(callers[1].options[1].subdir.segs)
       < Len(callers[1].ret[1].path.segs)
  /\ Alone(2).exists

(***************************************************************************)
(* Custom prompts take precedence.                                         *)
(***************************************************************************)
\* a prompt with this source was registered under n, with allowOverride true
\* (the default), since the last clear
RegisteredAs(n, source) ==
  \E r \in registered : r.name = n /\ r.source = source /\ r.allowOverride

\* C20: after any sequence of register, registerMany, clear and the loading
\* done by startServer, a name under which a custom prompt was registered with
\* allowOverride true since the last clear is held by a custom prompt: getPrompt
\* does not throw and returns a prompt of source custom.
C20_CustomWins ==
  \A n \in PromptNames :
    RegisteredAs(n, "custom") =>
      /\ getPrompt(n).throws = undefined
      /\ getPrompt(n).value[1].metadata.source = "custom"

\* both a pre-shipped and a custom prompt were registered under a name and the
\* custom one is held
C20_Witness ==
  /\ RegisteredAs("a", "custom")
  /\ RegisteredAs("a", "pre-shipped")
  /\ getPrompt("a").value[1].metadata.source = "custom"
  /\ getPrompt("b").throws # undefined

(***************************************************************************)
(* Registering without override.                                           *)
(***************************************************************************)
\* C21: in every state a PromptManager reaches, register(prompt, false)
\* returns the registry as it is when the name of the prompt is registered,
\* for every pair of sources of the offered and the held prompt, and
\* otherwise adds the prompt under its name and changes no other entry.
C21_NoOverrideKeepsRegistry ==
  \A prompt \in Prompts :
    LET after == register(prompts, prompt, FALSE) IN
    IF hasPrompt(prompt.name)
      THEN after = prompts
      ELSE /\ after[prompt.name] = Some(prompt)
           /\ \A n \in PromptNames \ {prompt.name} : after[n] = prompts[n]

\* a custom prompt was offered with allowOverride false under a name a
\* pre-shipped prompt held, and the pre-shipped prompt is still held
C21_Witness ==
  /\ [name |-> "a", source |-> "custom", allowOverride |-> FALSE] \in registered
  /\ \A r \in registered : r.name = "a" /\ r.source = "custom" => ~r.allowOverride
  /\ hasPrompt("a")
  /\ prompts["a"][1].metadata.source = "pre-shipped"

\* a prompt registered with allowOverride false under a free name is held
C21_WitnessAdded ==
  /\ registered = {[name |-> "b", source |-> "custom", allowOverride |-> FALSE]}
  /\ hasPrompt("b")
  /\ ~hasPrompt("a")

(***************************************************************************)
(* What the registry holds.                                                *)
(***************************************************************************)
\* the names under which register was called since the last clear
RegisteredNames == {r.name : r \in registered}

RegistryMatchesHistory ==
  /\ count = Cardinality(RegisteredNames)
  /\ \A n \in PromptNames :
       /\ Cardinality({p \in listPrompts : p.name = n})
            = IF n \in RegisteredNames THEN 1 ELSE 0
       /\ hasPrompt(n) <=> n \in RegisteredNames
       /\ getPrompt(n).throws = Some("PromptNotFoundError") <=> ~hasPrompt(n)
       /\ getPrompt(n).throws = undefined <=> hasPrompt(n)
       /\ hasPrompt(n) => getPrompt(n).value[1].name = n

\* a step in which getPrompt is called
GetPromptReadsOnly ==
  (call' # undefined /\ (call' # call \/ ret' # ret)) =>
    /\ prompts' = prompts
    /\ registered' = registered
    /\ ret'[1] = getPrompt(call'[1].name)
    /\ ret'[1].throws # undefined <=> ~hasPrompt(call'[1].name)

\* C28: in every state reached by register, registerMany, clear and getPrompt
\* calls, count() is the number of distinct names registered since the last
\* clear, listPrompts() holds one prompt for each of these names and none for
\* another, and getPrompt(n) throws PromptNotFoundError exactly when
\* hasPrompt(n) is false; a getPrompt call, throwing or not, leaves the
\* registry as it was.
C28_CountNamesAndThrows ==
  [](RegistryMatchesHistory) /\ [][GetPromptReadsOnly]_vars

\* one name was registered more than once, with two sources, count() is 1 and
\* getPrompt of the other name has thrown
C28_Witness ==
  /\ RegisteredNames = {"a"}
  /\ Cardinality(registered) >= 2
  /\ count = 1
  /\ call = Some([fn |-> "getPrompt", name |-> "b"])
  /\ ret[1].throws = Some("PromptNotFoundError")

(***************************************************************************)
(* The override branch looks nowhere else.                                 *)
(***************************************************************************)
\* the requests that differ from o at most in startDir, useHomeFallback,
\* homeSubdir and subdir
SameOverride(o) == {o2 \in Options : o2.subdirEnvPrefix = o.subdirEnvPrefix}

\* C24: a call that takes the override branch makes one existence check, that
\* of the override path, and returns that path, taken against the working
\* directory, with what the check said; every request with the same
\* subdirEnvPrefix, whatever its startDir, useHomeFallback and homeSubdir,
\* returns the same, and so does every request once PROJECT_DIR is removed
\* from the environment.
C24_OverrideShortCircuits ==
  /\ (Returned /\ overrideTaken(Request)) =>
       LET overridePath == AbsoluteForm(OverrideValue(Request)[1]) IN
       /\ probes = <<Probe("override", overridePath)>>
       /\ SearchProbes = {} /\ HomeProbes = {}
       /\ Result = [path |-> overridePath, source |-> "env-subdir",
                    exists |-> statSync(overridePath) \in {"dir", "file"}]
       /\ \A o2 \in SameOverride(Request) : discoverDirectory(o2).result = Result
  /\ (before # undefined /\ before[1].name = PROJECT_DIR_ENV_VAR) =>
       \A o \in Options :
         overrideTaken(o) => discoverDirectory(o) = before[1].outcome[o]

\* the override is taken by a request that names a start directory, asks for
\* the home fallback and a home subdirectory, with PROJECT_DIR set and the
\* subdirectory present at the home path
C24_Witness ==
  /\ Returned
  /\ overrideTaken(Request)
  /\ Truthy(process_env(PROJECT_DIR_ENV_VAR))
  /\ Request.startDir # undefined
  /\ Request.useHomeFallback = Some(TRUE)
  /\ Request.homeSubdir # undefined
  /\ PathExists(Join(homedir, homeSubdirOf(Request)))
  /\ Len(probes) = 1
  /\ Result.source = "env-subdir"

\* PROJECT_DIR was removed and a request that takes the override returns what
\* it returned before
C24_WitnessProjectDir ==
  /\ before # undefined
  /\ before[1].name = PROJECT_DIR_ENV_VAR
  /\ before[1].value # EmptyString
  /\ \E o \in Options :
       overrideTaken(o) /\ before[1].outcome[o].result.source = "env-subdir"

(***************************************************************************)
(* The number and the order of the existence checks.                       *)
(***************************************************************************)
\* the number of existence checks of a kind that the last call made
ChecksAt(site) == Cardinality({i \in DOMAIN probes : probes[i].at = site})

\* C25: every call returns, and of its existence checks at most one is an
\* override check and one a home check; a call that searches checks the
\* candidate of the start directory first, then that of each next ancestor in
\* turn, every directory of the chain at most once, goes on only after a miss
\* and stops at the first hit, so that it makes at most depth + 1 candidate
\* checks, depth being the number of segments of the start directory, and
\* exactly depth + 1 when no candidate exists.
C25_ChecksAreBounded ==
  Returned =>
    LET d == EffectiveStart(Request)
        depth == Len(d.segs)
        n == ChecksAt("search")
    IN
    /\ ret # undefined
    /\ ChecksAt("override") <= 1
    /\ ChecksAt("home") <= 1
    /\ n <= depth + 1
    /\ Len(probes) = ChecksAt("override") + n + ChecksAt("home")
    /\ overrideTaken(Request) => n = 0 /\ ChecksAt("home") = 0
    /\ ~overrideTaken(Request) =>
         /\ n >= 1
         /\ ChecksAt("override") = 0
         /\ \A i \in 1..n :
              probes[i] = Probe("search", Join(Ancestor(d, depth - i + 1), Request.subdir))
         /\ \A i \in 1..(n - 1) : ~existsSync(probes[i].path)
         /\ n < depth + 1 => existsSync(probes[n].path)
         /\ existsSync(probes[n].path) =>
              Result.path = probes[n].path /\ Len(probes) = n
         /\ Len(probes) = n + 1 => probes[n + 1].at = "home"

\* a search from a start directory two segments deep that found nothing made
\* three candidate checks, the last one at the root, and then the home check
C25_Witness ==
  /\ Returned
  /\ Len(EffectiveStart(Request).segs) = 2
  /\ ChecksAt("search") = 3
  /\ probes[3].path = Join(AbsPath(<<>>), Request.subdir)
  /\ ChecksAt("home") = 1
  /\ Len(probes) = 4

\* a search that stopped at its first hit, one directory above the start
C25_WitnessFirstHit ==
  /\ Returned
  /\ Len(EffectiveStart(Request).segs) = 2
  /\ ChecksAt("search") = 2
  /\ Result.path = probes[2].path
  /\ PathExists(Join(AbsPath(<<>>), Request.subdir))

\* a search that starts at the root makes one candidate check
C25_WitnessAtRoot ==
  /\ Returned
  /\ EffectiveStart(Request) = AbsPath(<<>>)
  /\ ChecksAt("search") = 1

(***************************************************************************)
(* No prefix, no override.                                                 *)
(***************************************************************************)
\* C26: a request without subdirEnvPrefix never returns the override result,
\* whatever the environment holds, variables named _SUBDIR and
\* undefined_SUBDIR included: its source is project, env-project or home, it
\* makes no override check and returns what the search and the fallback give.
C26_NoPrefixNoOverride ==
  (Returned /\ Request.subdirEnvPrefix = undefined) =>
    /\ Result.source \in {"project", "env-project", "home"}
    /\ ChecksAt("override") = 0
    /\ ChecksAt("search") >= 1
    /\ Result = searchOrFallback(Request).result

\* _SUBDIR, undefined_SUBDIR and PROMPTS_SUBDIR all point at a directory that
\* exists, and a request without prefix has searched and gone to the home
\* directory
C26_Witness ==
  /\ Returned
  /\ Request.subdirEnvPrefix = undefined
  /\ \A n \in {"_SUBDIR", "undefined_SUBDIR", "PROMPTS_SUBDIR"} :
       env[n] = Some(AbsPath(<<"o">>))
  /\ PathExists(AbsPath(<<"o">>))
  /\ Result.source = "home"
  /\ Result.path # AbsPath(<<"o">>)

====
